---- MODULE Spec2Model ----
(***************************************************************************)
(* Model of the crawl-and-analysis engine of website_analyzer_backend:     *)
(* the sliding-window rate limiter, the redirect chain resolver, the site  *)
(* crawler, the analysis orchestrator and its retry wrapper, the analyze   *)
(* request, the SSRF guard, the link checker, the depth map, the redirect  *)
(* check over URL variants, the chain analysis and the crawl deadline.     *)
(* Each component has its own specification (SpecRL, SpecRD, ...) over the *)
(* shared variable tuple; the variables of the other components stay at    *)
(* their initial value.                                                    *)
(***************************************************************************)
EXTENDS Integers, Sequences, FiniteSets, TLC

VARIABLES
    \* ---- rate limiter (src/src/utils/rateLimiter/rateLimiter.ts)
    windowMs,      \* RateLimiter.windowMs
    maxRequests,   \* RateLimiter.maxRequests
    now,           \* Date.now()
    requests,      \* RateLimiter.requests : Map<string, number[]>
    calls,         \* history: one record per checkLimit call, oldest first
    awaiting,      \* indices of calls whose handler has not resumed after the await
    \* ---- redirect resolver (src/src/services/redirectCheckerService.ts)
    site,          \* the web: what a GET of each page answers
    rdMaxRedirects,\* RedirectChecker.maxRedirects
    rdPc,          \* "idle" | "loop" | "done": position in RedirectChecker.check
    results,       \* check: results
    currentUrl,    \* check: currentUrl
    redirectCount, \* check: redirectCount
    \* ---- site crawler (src/src/utils/technical-seo-analyzer/crawler.ts)
    siteLinks,     \* the site: page -> pages its <a href> elements point to
    siteKind,      \* the site: page -> how a fetch of it ends
    crPc,          \* "idle" | "running" | "stopped": state of the simplecrawler run
    crClock,       \* time since crawl() was called, in units of CrawlUnitMs
    crLastTick,    \* clock value of the last run of the crawler's interval
    crQueue,       \* the crawler's fetch queue, oldest first: [url, depth]
    crNext,        \* index in crQueue of the oldest unfetched item
    crOpen,        \* requests in flight: [url, depth, start]
    pagesFound,    \* crawl: pagesFound
    crawledPages,  \* TechnicalSEOAnalyzer.crawledPages : Map<string, CrawledPage>
    crKeys,        \* head of the key order of crawledPages: << >> or <<first key>>
    crawlTimeout,  \* TRUE while the overall timer is armed
    crPromise,     \* "pending" | "resolved": the promise crawl() returned
    crResolvedBy,  \* "none" | "complete" | "timer": what resolved it
    \* ---- analysis orchestrator (src/src/utils/technical-seo-analyzer/index.ts)
    fastMode,      \* SEOAnalysisOrchestrator.fastMode
    crawlBehaviour,\* the run's environment: how crawler.crawl() ends
    collaborators, \* the run's environment: task -> how its collaborator's operation ends
    orPc,          \* position in runFullAnalysis
    taskPc,        \* task -> "idle" | "waiting" | "backoff" | "done": position in its run method
    attempt,       \* task -> withRetry: attempt
    abandoned,     \* tasks whose operation is still running after its timeout fired
    analysisStatus,\* SEOAnalysisOrchestrator.analysisStatus
    orResults,     \* SEOAnalysisOrchestrator.results
    statusWrites,  \* history: task -> number of assignments to analysisStatus[task]
    \* ---- withRetry as a unit (src/src/utils/technical-seo-analyzer/index.ts)
    wrMaxRetries,  \* withRetry: maxRetries
    wrPc,          \* position in withRetry
    wrAttempt,     \* withRetry: attempt
    wrLastError,   \* withRetry: lastError (its message), "none" for null
    wrInvocations, \* history: how each invocation of operation() ended, oldest first
    wrWaits,       \* history: the waits between attempts, in ms
    \* ---- analyze request (src/src/controllers/seoAnalyzer.ts, src/src/utils/analyzeUrl.ts)
    rqPc,          \* "idle" | "running" | "responded": position in handleAnalyze
    rqWebsite,     \* "pending" | "done" | "failed": analyzeUrl: websitePromise
    rqSeo,         \* analyzeUrl: what withTimeout(seoPromise) resolved with, [success, data, error]
    rqResponse,    \* the HTTP response: [code, seo, statuses]
    rqAssigned,    \* history: tasks whose status was assigned when the response was sent
    \* ---- SSRF guard (src/src/utils/ssrf.ts and its callers)
    sfEntry,       \* "seo" | "redirect": the handler the URL arrived at
    sfUrl,         \* the request URL: [scheme, host]
    sfSkipSSRF,    \* options.skipSSRF of the request
    sfA,           \* the resolver: what dns.resolve4(hostname) answers, [ok, addresses]
    sfAAAA,        \* the resolver: the IPv6 addresses of the name
    sfVerdict,     \* "none", then what the handler's URL validation decided
    guardAllowed,  \* history: the URLs the handler's URL validation checked and let pass
    \* ---- broken link checker (src/src/utils/technical-seo-analyzer/link-checker.ts)
    lcPages,       \* checkLinks: crawledPages, in insertion order: [links, error]
    lcShift,       \* the web: which response scenario each link URL meets
    lcPc,          \* "idle" | "start" | "probing" | "awaiting" | "done": position in checkLinks
    lcLinksToCheck,\* checkLinks: linksToCheck
    lcNext,        \* checkLinks: i, the start of the next batch (zero-based)
    lcBroken,      \* checkLinks: broken
    lcRedirects,   \* checkLinks: redirects
    lcProbes,      \* history: the probes issued, oldest first: [url, referer, requests]
    lcInFlight,    \* the positions in linksToCheck of the probes that have not returned
    \* ---- site architecture (src/src/utils/technical-seo-analyzer/visualizer.ts)
    arKeys,        \* visualize: the keys of crawledPages, in the map's order
    arPages,       \* visualize: crawledPages, URL -> [hasLinks, links]
    arPc,          \* "idle" | "called" | "done": position in visualize
    arDepthMap,    \* visualize: depthMap when the loop has ended, URL -> depth
    arDepthGroups, \* visualize: depthGroups, depth -> URLs
    \* ---- redirect check variants (src/src/controllers/seoAnalyzer.ts, handleRedirectCheck)
    vrUrl,         \* handleRedirectCheck: normalized, [proto, www, slash, raw]
    vrSite,        \* the web: how check ends for a scheme and host
    vrNoLoop,      \* request: options.maxRedirects is negative, so the loop of check is not entered
    vrPc,          \* "idle" | "awaiting" | "settled" | "responded"
    vrIndex,       \* handleRedirectCheck: the position of candidate in variants
    vrTimedOut,    \* handleRedirectCheck: timeoutPromise is rejected
    vrReports,     \* handleRedirectCheck: variantReports
    vrChain,       \* handleRedirectCheck: redirectChain
    vrLastError,   \* handleRedirectCheck: lastError
    vrResponse,    \* the response: [status, chain, reports]
    vrProbed,      \* history: the candidates check was called with, oldest first
    \* ---- redirect chain analysis (src/src/controllers/seoAnalyzer.ts, analyzeRedirectChain)
    anChain,       \* analyzeRedirectChain: redirectChain, hops [proto, host]
    anPc,          \* "idle" | "called" | "done"
    anSecurityIssues, \* analyzeRedirectChain: securityIssues
    \* ---- crawl deadline (index.ts withTimeout around crawler.ts crawl)
    cdOverall,     \* delay of the crawler's own overall timer, ms
    cdCompleteAt,  \* {} or {t}: when the library emits complete
    cdPc,          \* "idle" | "crawl" | "withTimeout" | "awaiting" | "continued" | "threw"
    cdClock,       \* time since runFullAnalysis called crawl(), ms
    cdRunning,     \* the crawler runs (started, not stopped)
    cdTimers,      \* armed timers [name, due], in the order armed
    cdJobs,        \* promise reactions queued, oldest first
    cdCrawl,       \* promise of crawl(): "pending" | "resolved"
    cdTimeout,     \* withTimeout's timeoutPromise: "pending" | "rejected"
    cdRace         \* Promise.race: "pending" | "value" | "timed out"

rlVars == <<windowMs, maxRequests, now, requests, calls, awaiting>>
rdVars == <<site, rdMaxRedirects, rdPc, results, currentUrl, redirectCount>>
crVars == <<siteLinks, siteKind, crPc, crClock, crLastTick, crQueue, crNext, crOpen,
           pagesFound, crawledPages, crKeys, crawlTimeout, crPromise, crResolvedBy>>

orVars == <<fastMode, crawlBehaviour, collaborators, orPc, taskPc, attempt, abandoned,
           analysisStatus, orResults, statusWrites>>

wrVars == <<wrMaxRetries, wrPc, wrAttempt, wrLastError, wrInvocations, wrWaits>>

rqVars == <<rqPc, rqWebsite, rqSeo, rqResponse, rqAssigned>>

sfVars == <<sfEntry, sfUrl, sfSkipSSRF, sfA, sfAAAA, sfVerdict, guardAllowed>>

lcVars == <<lcPages, lcShift, lcPc, lcLinksToCheck, lcNext, lcBroken, lcRedirects, lcProbes, lcInFlight>>

arVars == <<arKeys, arPages, arPc, arDepthMap, arDepthGroups>>

vrVars == <<vrUrl, vrSite, vrNoLoop, vrPc, vrIndex, vrTimedOut, vrReports, vrChain, vrLastError, vrResponse, vrProbed>>

anVars == <<anChain, anPc, anSecurityIssues>>

cdVars == <<cdOverall, cdCompleteAt, cdPc, cdClock, cdRunning, cdTimers, cdJobs, cdCrawl, cdTimeout, cdRace>>

vars == <<rlVars, rdVars, crVars, orVars, wrVars, rqVars, sfVars, lcVars, arVars, vrVars, anVars, cdVars>>

\* What each component leaves alone: the variables of the others.
rlOthers == <<rdVars, crVars, orVars, wrVars, rqVars, sfVars, lcVars, arVars, vrVars, anVars, cdVars>>
rdOthers == <<rlVars, crVars, orVars, wrVars, rqVars, sfVars, lcVars, arVars, vrVars, anVars, cdVars>>
crOthers == <<rlVars, rdVars, orVars, wrVars, rqVars, sfVars, lcVars, arVars, vrVars, anVars, cdVars>>
orOthers == <<rlVars, rdVars, crVars, wrVars, rqVars, sfVars, lcVars, arVars, vrVars, anVars, cdVars>>
wrOthers == <<rlVars, rdVars, crVars, orVars, rqVars, sfVars, lcVars, arVars, vrVars, anVars, cdVars>>
rqOthers == <<rlVars, rdVars, crVars, orVars, wrVars, sfVars, lcVars, arVars, vrVars, anVars, cdVars>>
sfOthers == <<rlVars, rdVars, crVars, orVars, wrVars, rqVars, lcVars, arVars, vrVars, anVars, cdVars>>
lcOthers == <<rlVars, rdVars, crVars, orVars, wrVars, rqVars, sfVars, arVars, vrVars, anVars, cdVars>>
arOthers == <<rlVars, rdVars, crVars, orVars, wrVars, rqVars, sfVars, lcVars, vrVars, anVars, cdVars>>
vrOthers == <<rlVars, rdVars, crVars, orVars, wrVars, rqVars, sfVars, lcVars, arVars, anVars, cdVars>>
anOthers == <<rlVars, rdVars, crVars, orVars, wrVars, rqVars, sfVars, lcVars, arVars, vrVars, cdVars>>
cdOthers == <<rlVars, rdVars, crVars, orVars, wrVars, rqVars, sfVars, lcVars, arVars, vrVars, anVars>>

----------------------------------------------------------------------------
(* Bounds                                                                   *)
MaxWindow == 2     \* largest windowMs given to the constructor
MaxCap    == 2     \* largest maxRequests given to the constructor
MaxTime   == 3     \* the clock stops advancing here
MaxCalls  == 3     \* checkLimit calls recorded in one behaviour

Ids == {"ip1", "ip2"}

----------------------------------------------------------------------------
(* Helpers                                                                  *)
RECURSIVE SeqMin(_)
SeqMin(s) ==
    IF Len(s) = 1 THEN s[1]
    ELSE LET m == SeqMin(Tail(s)) IN IF s[1] < m THEN s[1] ELSE m

----------------------------------------------------------------------------
(* Rate limiter                                                             *)

\* (variant) the filter keeps the timestamp that is exactly windowMs old
recentRequestsInclusive(userRequests, windowStart) ==
    SelectSeq(userRequests, LAMBDA time : time >= windowStart)

\* userRequests.filter(time => time > windowStart)
recentRequests(userRequests, windowStart) ==
    SelectSeq(userRequests, LAMBDA time : time > windowStart)

\* this.requests.get(identifier) after the has/set of lines 24-26
userRequestsOf(identifier) ==
    IF identifier \in DOMAIN requests THEN requests[identifier] ELSE <<>>

\* the decision of line 34 taken on the purged list
limitReached(recent) == Len(recent) >= maxRequests

\* (variant) the admitted request is not recorded
pushNothing(recent, t) == recent

\* recentRequests.push(now)
pushNow(recent, t) == Append(recent, t)

\* The value checkLimit returns and the list it leaves in the map.
checkLimitResult(identifier, t) ==
    LET windowStart == t - windowMs
        recent      == recentRequests(userRequestsOf(identifier), windowStart)
    IN  IF limitReached(recent)
        THEN [allowed   |-> FALSE,
              remaining |-> 0,
              resetTime |-> SeqMin(recent) + windowMs,
              stored    |-> recent]
        ELSE [allowed   |-> TRUE,
              remaining |-> maxRequests - Len(pushNow(recent, t)),
              resetTime |-> t + windowMs,
              stored    |-> pushNow(recent, t)]

\* A handler calls `await rateLimiter.checkLimit(clientIP)`.  The body of
\* checkLimit contains no await, so it runs to completion in the turn of
\* the event loop that called it; only the caller is suspended afterwards.
CheckLimit(identifier) ==
    /\ Len(calls) < MaxCalls
    /\ LET r == checkLimitResult(identifier, now)
       IN  /\ requests' = [k \in DOMAIN requests \cup {identifier} |->
                              IF k = identifier THEN r.stored ELSE requests[k]]
           /\ calls' = Append(calls,
                  [id        |-> identifier,
                   at        |-> now,
                   before    |-> userRequestsOf(identifier),
                   after     |-> r.stored,
                   allowed   |-> r.allowed,
                   remaining |-> r.remaining,
                   resetTime |-> r.resetTime,
                   overlap   |-> awaiting])
           /\ awaiting' = awaiting \cup {Len(calls) + 1}
    /\ UNCHANGED <<windowMs, maxRequests, now, rlOthers>>

\* The continuation of the handler after the await (429 or the analysis).
HandlerResume(i) ==
    /\ i \in awaiting
    /\ awaiting' = awaiting \ {i}
    /\ UNCHANGED <<windowMs, maxRequests, now, requests, calls, rlOthers>>

\* RateLimiter.cleanup, run by the setInterval of the constructor.
Cleanup ==
    /\ LET windowStart == now - windowMs
           kept == {k \in DOMAIN requests :
                       Len(recentRequests(requests[k], windowStart)) # 0}
       IN  requests' = [k \in kept |-> recentRequests(requests[k], windowStart)]
    /\ UNCHANGED <<windowMs, maxRequests, now, calls, awaiting, rlOthers>>

\* Date.now() advances; pending continuations run before time moves on.
ClockTick ==
    /\ now < MaxTime
    /\ awaiting = {}
    /\ now' = now + 1
    /\ UNCHANGED <<windowMs, maxRequests, requests, calls, awaiting, rlOthers>>

StartRL ==
    /\ windowMs \in 1..MaxWindow
    /\ maxRequests \in 1..MaxCap
    /\ now = 0
    /\ requests = << >>
    /\ calls = << >>
    /\ awaiting = {}

StepRL ==
    \/ \E identifier \in Ids : CheckLimit(identifier)
    \/ \E i \in 1..MaxCalls : HandlerResume(i)
    \/ Cleanup
    \/ ClockTick

\* The limiter before any request, with the smallest window and cap.
IdleRL ==
    /\ windowMs = 1
    /\ maxRequests = 1
    /\ now = 0
    /\ requests = << >>
    /\ calls = << >>
    /\ awaiting = {}

----------------------------------------------------------------------------
(* Rate limiter: claims                                                     *)

\* The timestamps of c.before that are less than windowMs old at the call.
Survivors(c) == SelectSeq(c.before, LAMBDA time : time > c.at - windowMs)

\* The admitted calls of one identity with a timestamp in [a, a + windowMs].
AdmittedIn(id, a) ==
    {i \in DOMAIN calls : /\ calls[i].id = id
                          /\ calls[i].allowed
                          /\ a <= calls[i].at
                          /\ calls[i].at <= a + windowMs}

(* C1: for every identity and every window of duration W (its two ends     *)
(* included, so that calls exactly W apart fall in one window), at most N  *)
(* calls with a timestamp in the window were answered allowed = true.      *)
C1_AtMostNPerWindow ==
    \A id \in Ids : \A a \in 0..MaxTime :
        Cardinality(AdmittedIn(id, a)) <= maxRequests

(* C2: of two checkLimit calls for one identity that are in progress       *)
(* together (the second is made before the handler of the first resumed),  *)
(* the second never reads the window the first read, and when the first    *)
(* took the last slot the second is denied.                                *)
C2_NoDoubleAdmission ==
    \A j \in DOMAIN calls : \A i \in calls[j].overlap :
        (calls[i].id = calls[j].id /\ calls[i].allowed) =>
            /\ calls[j].before # calls[i].before
            /\ (Len(Survivors(calls[i])) = maxRequests - 1 => ~calls[j].allowed)

C2_Witness ==
    \E j \in DOMAIN calls : \E i \in calls[j].overlap :
        /\ calls[i].id = calls[j].id
        /\ calls[i].allowed
        /\ Len(Survivors(calls[i])) = maxRequests - 1
        /\ ~calls[j].allowed

----------------------------------------------------------------------------
(* Redirect chain resolver                                                  *)

MAX_REDIRECTS == 20          \* controllers/seoAnalyzer.ts: MAX_REDIRECTS
DefaultMaxRedirects == 10    \* RedirectChecker constructor default

Pages == {"p1", "p2", "p3"}
Frags == {"", "#f"}
Urls  == [page : Pages, frag : Frags]
NoUrl == [page |-> "-", frag |-> ""]

\* What the server answers to a GET of a page: a plain response ("ok"), a
\* 3xx with a Location header ("http"), a 200 HTML page with a meta refresh
\* ("meta"), or a failed request ("error": axios throws).
Responses ==
    {[kind |-> k, to |-> NoUrl] : k \in {"ok", "error"}}
    \cup {[kind |-> k, to |-> u] : k \in {"http", "meta"}, u \in Urls}

\* options.maxRedirects as the request may give it (0: absent)
RequestedMaxRedirects == {0, 3, 25}

Min2(a, b) == IF a < b THEN a ELSE b

\* Math.min(Number(options.maxRedirects) || MAX_REDIRECTS, MAX_REDIRECTS)
validatedMaxRedirects(opt) ==
    Min2(IF opt # 0 THEN opt ELSE MAX_REDIRECTS, MAX_REDIRECTS)

\* this.maxRedirects = options.maxRedirects || 10
constructorMaxRedirects(opt) == IF opt # 0 THEN opt ELSE DefaultMaxRedirects

\* makeRequest: the fragment is not part of the request
makeRequest(url) == site[url.page]

\* r.url.split('#')[0]
stripFragment(url) == [url EXCEPT !.frag = ""]

\* The while condition of check.
loopContinues(count, max) == count <= max

\* controller: new RedirectChecker(validatedOptions).check(candidate)
RdStart(opt, url) ==
    /\ rdPc = "idle"
    /\ rdMaxRedirects' = constructorMaxRedirects(validatedMaxRedirects(opt))
    /\ currentUrl' = url
    /\ redirectCount' = 0
    /\ results' = << >>
    /\ rdPc' = "loop"
    /\ UNCHANGED <<site, rdOthers>>

\* One iteration of the while loop of check: fetch, record the hop, follow
\* a Location header or a meta refresh, otherwise break.
RdHop ==
    /\ rdPc = "loop"
    /\ loopContinues(redirectCount, rdMaxRedirects)
    /\ LET response == makeRequest(currentUrl)
       IN  /\ results' = Append(results, [url |-> currentUrl, kind |-> response.kind])
           /\ IF response.kind \in {"http", "meta"}
              THEN /\ currentUrl' = response.to
                   /\ redirectCount' = redirectCount + 1
                   /\ rdPc' = "loop"
              ELSE /\ rdPc' = "done"
                   /\ UNCHANGED <<currentUrl, redirectCount>>
    /\ UNCHANGED <<site, rdMaxRedirects, rdOthers>>

\* The while condition fails: return results.
RdReturn ==
    /\ rdPc = "loop"
    /\ ~loopContinues(redirectCount, rdMaxRedirects)
    /\ rdPc' = "done"
    /\ UNCHANGED <<site, rdMaxRedirects, results, currentUrl, redirectCount, rdOthers>>

\* analyzeRedirectChain: totalRedirects
totalRedirects(chain) == IF Len(chain) = 0 THEN 0 ELSE Len(chain) - 1

\* analyzeRedirectChain: hasLoop
hasLoop(chain) ==
    \E i, j \in DOMAIN chain :
        i < j /\ stripFragment(chain[i].url) = stripFragment(chain[j].url)

\* analyzeRedirectChain: the seoIssues that depend on the chain's shape
seoIssues(chain) ==
    (IF hasLoop(chain) THEN {"redirect-loop"} ELSE {})
    \cup (IF totalRedirects(chain) > 3 THEN {"redirect-chain-too-long"} ELSE {})
    \cup (IF totalRedirects(chain) > 1 THEN {"multiple-redirects"} ELSE {})

\* analyzeRedirectChain: the too-many-redirects security flag
tooManyRedirects(chain) == totalRedirects(chain) > MAX_REDIRECTS

StartRD ==
    /\ site \in [Pages -> Responses]
    /\ rdMaxRedirects = DefaultMaxRedirects
    /\ rdPc = "idle"
    /\ results = << >>
    /\ currentUrl = NoUrl
    /\ redirectCount = 0

\* No redirect check is running and no page redirects.
IdleRD ==
    /\ site = [p \in Pages |-> [kind |-> "ok", to |-> NoUrl]]
    /\ rdMaxRedirects = DefaultMaxRedirects
    /\ rdPc = "idle"
    /\ results = << >>
    /\ currentUrl = NoUrl
    /\ redirectCount = 0

StepRD ==
    \/ \E opt \in RequestedMaxRedirects, url \in {u \in Urls : u.page = "p1"} :
          RdStart(opt, url)
    \/ RdHop
    \/ RdReturn

----------------------------------------------------------------------------
(* Redirect chain resolver: claims                                          *)

LastHop == results[Len(results)]

(* C4: when the returned chain holds the same fragment-stripped URL twice, *)
(* the analysis flags redirect-loop and the chain ends at the second       *)
(* occurrence: no hop was fetched after it.                                *)
C4_LoopStopsChain ==
    rdPc = "done" =>
        \A i, j \in DOMAIN results :
            (i < j /\ stripFragment(results[i].url) = stripFragment(results[j].url))
                => /\ "redirect-loop" \in seoIssues(results)
                   /\ j = Len(results)

(* C5: when the site still redirects at the limit (the loop ended because  *)
(* redirectCount passed maxRedirects), the returned chain carries the      *)
(* too-many-redirects marker.                                              *)
C5_TruncationMarked ==
    (rdPc = "done" /\ redirectCount > rdMaxRedirects)
        => tooManyRedirects(results)

(* C6: the returned chain has at most maxRedirects + 1 hops, and its last  *)
(* hop is a non-redirecting response or an error hop, or the chain is      *)
(* marked too-many-redirects.                                              *)
C6_ChainEndsOrMarked ==
    (rdPc = "done" /\ Len(results) > 0) =>
        /\ Len(results) <= rdMaxRedirects + 1
        /\ \/ LastHop.kind \in {"ok", "error"}
           \/ tooManyRedirects(results)

----------------------------------------------------------------------------
(* Site crawler (second TechnicalSEOAnalyzer of crawler.ts, lines 129-228)  *)
(*                                                                          *)
(* crawl() drives the simplecrawler library.  What the model takes from the *)
(* library: start() queues the seed at depth 1 and runs the crawl loop once *)
(* at once and then every `interval` ms; one run of the loop spools at most *)
(* one queued item, and only while fewer than maxConcurrency requests are   *)
(* open; when nothing is queued and nothing is open it emits "complete";    *)
(* links found in a fetched page are queued at depth + 1 unless that        *)
(* exceeds maxDepth or the URL was queued before; stop() ends the interval  *)
(* and leaves the open requests running, and no "complete" follows it.      *)

(* Time is counted in units of 5000 ms.                                     *)

CrawlInterval    == 2      \* crawler.interval = 10000 ms
FetchTimeout     == 1      \* crawler.timeout = 5000 ms

\* (variant) an overall timer of twelve crawl intervals (120 s, not 15 s)
OverallTimeoutLong == 12 * CrawlInterval

OverallTimeout   == 3      \* setTimeout(..., 15000)
maxConcurrency   == 3      \* crawler.maxConcurrency
maxDepth         == 2      \* crawler.maxDepth (the seed has depth 1)
maxPages         == 10     \* const maxPages

NumLinks == 10             \* pages of a site besides the seed

SitePages == 0..NumLinks
Seed == 0

\* How a fetch ends: "ok" a 2xx (fetchcomplete); "error" a 4xx/5xx other
\* than 404/410 (fetcherror); "timeout" no answer (fetchtimeout);
\* "unrecorded" an ending crawl() has no handler for (fetch404, fetch410,
\* fetchclienterror).
FetchKinds == {"ok", "error", "timeout", "unrecorded"}

\* The sites: the seed links to pages 1..k, for k none, one, two or all of
\* the pages; every other page links to nothing, back to the seed, or to
\* the page after it.
LinkPatterns == {"none", "home", "next"}
SeedLinkCounts == {0, 1, 2, NumLinks}

SiteLinksOf(k, pattern) ==
    [p \in SitePages |->
        IF p = Seed THEN 1..k
        ELSE IF pattern = "home" THEN {Seed}
        ELSE IF pattern = "next" /\ p + 1 <= NumLinks THEN {p + 1}
        ELSE {}]

SiteKindOf(seedKind, firstKind) ==
    [p \in SitePages |->
        IF p = Seed THEN seedKind ELSE IF p = 1 THEN firstKind ELSE "ok"]

\* The last clock value: one unit after the overall timer.
CrClockEnd == OverallTimeout + 1

QueuedUrls == {crQueue[i].url : i \in DOMAIN crQueue}

RECURSIVE SetToSeq(_)
\* The elements of a set of pages in document order (ascending).
SetToSeq(S) ==
    IF S = {} THEN << >>
    ELSE LET m == CHOOSE x \in S : \A y \in S : x <= y
         IN  <<m>> \o SetToSeq(S \ {m})

\* The library's discovery: the links of a fetched page that are queued.
discovered(item) ==
    IF item.depth + 1 > maxDepth THEN << >>
    ELSE LET fresh == SetToSeq(siteLinks[item.url] \ QueuedUrls)
         IN  [i \in DOMAIN fresh |-> [url |-> fresh[i], depth |-> item.depth + 1]]

\* if (pagesFound >= maxPages) crawler.stop()
capReached(found) == found >= maxPages

\* The interval of the crawler is due at the current clock value.
tickDue == crPc = "running" /\ crClock % CrawlInterval = 0 /\ crLastTick < crClock

\* The overall timer is due.
timerDue == crawlTimeout /\ crClock >= OverallTimeout

\* Map.set: a new key goes to the end of the map's key order, a key that is
\* there keeps its place; so the first key is the first one ever set.
keysAfterSet(url) ==
    IF crKeys = << >> THEN <<url>> ELSE crKeys

\* crawl() is called: the timer is armed, the handlers are registered and
\* crawler.start() queues the seed.
CrStart ==
    /\ crPc = "idle"
    /\ crPc' = "running"
    /\ crawlTimeout' = TRUE
    /\ crQueue' = <<[url |-> Seed, depth |-> 1]>>
    /\ UNCHANGED <<siteLinks, siteKind, crClock, crLastTick, crNext, crOpen,
                   pagesFound, crawledPages, crKeys, crPromise, crResolvedBy, crOthers>>

\* One run of the crawler's loop that spools the oldest unfetched item.
CrTickFetch ==
    /\ tickDue
    /\ Cardinality(crOpen) < maxConcurrency
    /\ crNext <= Len(crQueue)
    /\ crOpen' = crOpen \cup {[url   |-> crQueue[crNext].url,
                               depth |-> crQueue[crNext].depth,
                               start |-> crClock]}
    /\ crNext' = crNext + 1
    /\ crLastTick' = crClock
    /\ UNCHANGED <<siteLinks, siteKind, crPc, crClock, crQueue, pagesFound,
                   crawledPages, crKeys, crawlTimeout, crPromise, crResolvedBy, crOthers>>

\* One run of the loop that finds the queue exhausted and nothing open:
\* "complete" is emitted (clearTimeout, resolve) and the crawler stops.
CrTickComplete ==
    /\ tickDue
    /\ crNext > Len(crQueue)
    /\ crOpen = {}
    /\ crawlTimeout' = FALSE
    /\ crPromise' = "resolved"
    /\ crResolvedBy' = IF crPromise = "pending" THEN "complete" ELSE crResolvedBy
    /\ crPc' = "stopped"
    /\ crLastTick' = crClock
    /\ UNCHANGED <<siteLinks, siteKind, crClock, crQueue, crNext, crOpen,
                   pagesFound, crawledPages, crKeys, crOthers>>

\* One run of the loop that can do nothing: all workers are busy, or the
\* queue is exhausted while requests are still open.
CrTickIdle ==
    /\ tickDue
    /\ \/ Cardinality(crOpen) >= maxConcurrency
       \/ crNext > Len(crQueue) /\ crOpen # {}
    /\ crLastTick' = crClock
    /\ UNCHANGED <<siteLinks, siteKind, crPc, crClock, crQueue, crNext, crOpen,
                   pagesFound, crawledPages, crKeys, crawlTimeout, crPromise,
                   crResolvedBy, crOthers>>

\* "fetchcomplete": count the page, store it with its same-site links, stop
\* the crawler at the cap; the library then queues the links it found.
CrFetchComplete(r) ==
    /\ r \in crOpen
    /\ siteKind[r.url] = "ok"
    /\ crOpen' = crOpen \ {r}
    /\ pagesFound' = pagesFound + 1
    /\ crawledPages' = [u \in DOMAIN crawledPages \cup {r.url} |->
          IF u = r.url
          THEN [status |-> 200, error |-> FALSE, links |-> siteLinks[r.url]]
          ELSE crawledPages[u]]
    /\ crKeys' = keysAfterSet(r.url)
    /\ crPc' = IF capReached(pagesFound + 1) THEN "stopped" ELSE crPc
    /\ crQueue' = crQueue \o discovered(r)
    /\ UNCHANGED <<siteLinks, siteKind, crClock, crLastTick, crNext,
                   crawlTimeout, crPromise, crResolvedBy, crOthers>>

\* "fetcherror": the page is stored with the error flag.
CrFetchError(r) ==
    /\ r \in crOpen
    /\ siteKind[r.url] = "error"
    /\ crOpen' = crOpen \ {r}
    /\ crawledPages' = [u \in DOMAIN crawledPages \cup {r.url} |->
          IF u = r.url THEN [status |-> 500, error |-> TRUE, links |-> {}]
          ELSE crawledPages[u]]
    /\ crKeys' = keysAfterSet(r.url)
    /\ UNCHANGED <<siteLinks, siteKind, crPc, crClock, crLastTick, crQueue, crNext,
                   pagesFound, crawlTimeout, crPromise, crResolvedBy, crOthers>>

\* "fetchtimeout": FetchTimeout after the request was sent, and after the
\* overall timer when both are due (the overall timer was armed first).
CrFetchTimeout(r) ==
    /\ r \in crOpen
    /\ siteKind[r.url] = "timeout"
    /\ crClock >= r.start + FetchTimeout
    /\ ~timerDue
    /\ crOpen' = crOpen \ {r}
    /\ crawledPages' = [u \in DOMAIN crawledPages \cup {r.url} |->
          IF u = r.url THEN [status |-> 408, error |-> TRUE, links |-> {}]
          ELSE crawledPages[u]]
    /\ crKeys' = keysAfterSet(r.url)
    /\ UNCHANGED <<siteLinks, siteKind, crPc, crClock, crLastTick, crQueue, crNext,
                   pagesFound, crawlTimeout, crPromise, crResolvedBy, crOthers>>

\* A fetch ends in an event crawl() does not listen to: nothing is stored.
CrFetchUnrecorded(r) ==
    /\ r \in crOpen
    /\ siteKind[r.url] = "unrecorded"
    /\ crOpen' = crOpen \ {r}
    /\ UNCHANGED <<siteLinks, siteKind, crPc, crClock, crLastTick, crQueue, crNext,
                   pagesFound, crawledPages, crKeys, crawlTimeout, crPromise,
                   crResolvedBy, crOthers>>

\* (variant) the callback of the overall timer stops the crawler only
timerOnlyStops == "pending"

\* What the callback of the overall timer does to the promise.
timerResolves == "resolved"

\* The overall timer fires: crawler.stop(); resolve(this.crawledPages).
CrTimer ==
    /\ timerDue
    /\ crawlTimeout' = FALSE
    /\ crPc' = "stopped"
    /\ crPromise' = IF crPromise = "pending" THEN timerResolves ELSE crPromise
    /\ crResolvedBy' = IF crPromise = "pending" /\ timerResolves = "resolved"
                       THEN "timer" ELSE crResolvedBy
    /\ UNCHANGED <<siteLinks, siteKind, crClock, crLastTick, crQueue, crNext, crOpen,
                   pagesFound, crawledPages, crKeys, crOthers>>

\* Time passes, once every timer that is due has run.
CrAdvance ==
    /\ crPc # "idle"
    /\ crClock < CrClockEnd
    /\ ~tickDue
    /\ ~timerDue
    /\ \A r \in crOpen :
          siteKind[r.url] = "timeout" => crClock < r.start + FetchTimeout
    /\ crClock' = crClock + 1
    /\ UNCHANGED <<siteLinks, siteKind, crPc, crLastTick, crQueue, crNext, crOpen,
                   pagesFound, crawledPages, crKeys, crawlTimeout, crPromise,
                   crResolvedBy, crOthers>>

\* A constructed TechnicalSEOAnalyzer whose crawl() was not called yet.
CrawlerConstructed ==
    /\ crPc = "idle"
    /\ crClock = 0
    /\ crLastTick = -1
    /\ crQueue = << >>
    /\ crNext = 1
    /\ crOpen = {}
    /\ pagesFound = 0
    /\ crawledPages = << >>
    /\ crKeys = << >>
    /\ crawlTimeout = FALSE
    /\ crPromise = "pending"
    /\ crResolvedBy = "none"

StartCR ==
    /\ \E k \in SeedLinkCounts, pattern \in LinkPatterns :
          siteLinks = SiteLinksOf(k, pattern)
    /\ \E seedKind \in FetchKinds, firstKind \in FetchKinds :
          siteKind = SiteKindOf(seedKind, firstKind)
    /\ CrawlerConstructed

IdleCR ==
    /\ siteLinks = SiteLinksOf(0, "none")
    /\ siteKind = SiteKindOf("ok", "ok")
    /\ CrawlerConstructed

StepCR ==
    \/ CrStart
    \/ CrTickFetch
    \/ CrTickComplete
    \/ CrTickIdle
    \/ \E r \in crOpen : CrFetchComplete(r)
    \/ \E r \in crOpen : CrFetchError(r)
    \/ \E r \in crOpen : CrFetchTimeout(r)
    \/ \E r \in crOpen : CrFetchUnrecorded(r)
    \/ CrTimer
    \/ CrAdvance

----------------------------------------------------------------------------
(* Site crawler: claims                                                     *)

RECURSIVE Within(_)
\* The pages at link distance at most n from the seed.
Within(n) ==
    IF n = 0 THEN {Seed}
    ELSE LET W == Within(n - 1) IN W \cup UNION {siteLinks[p] : p \in W}

EndedFetches ==
    {crQueue[i].url : i \in 1..(crNext - 1)} \ {r.url : r \in crOpen}

FailureKinds == {"error", "timeout", "unrecorded"}

(* C21: every fetch that has ended in a timeout or an error is in the page *)
(* graph as a page with the error flag set, the crawl is never rejected,   *)
(* and a failed fetch does not stop the crawler.                           *)
C21_FailuresRecorded ==
    /\ \A u \in EndedFetches :
          siteKind[u] \in FailureKinds =>
              u \in DOMAIN crawledPages /\ crawledPages[u].error
    /\ crPromise # "rejected"
    /\ pagesFound = 0 /\ crawlTimeout => crPc \in {"idle", "running"}

\* The part of C21 that holds: a fetch that ended with "fetcherror" or
\* "fetchtimeout" is stored with the error flag, and neither rejects the
\* crawl nor stops the crawler.
HandledFailuresRecorded ==
    /\ \A u \in EndedFetches :
          siteKind[u] \in {"error", "timeout"} =>
              u \in DOMAIN crawledPages /\ crawledPages[u].error
    /\ crPromise # "rejected"
    /\ pagesFound = 0 /\ crawlTimeout => crPc \in {"idle", "running"}

\* The first key of the page map is the seed: every other URL is queued
\* only when the seed was fetched and stored.
SeedStoredFirst ==
    /\ crKeys # << >> => crKeys[1] = Seed
    /\ crKeys = << >> <=> DOMAIN crawledPages = {}
    /\ \A i \in DOMAIN crKeys : crKeys[i] \in DOMAIN crawledPages

(* C29: once crawl() has resolved, by "complete" or by its overall timer,  *)
(* no entry of the page map it returned is added or changed.               *)
C29_ReturnedMapIsFixed ==
    [][crPromise = "resolved" => crawledPages' = crawledPages /\ crKeys' = crKeys]_vars

\* The part of C29 that holds: a crawl that "complete" resolved has no
\* request left, and its map stays as it was returned.
CompletedMapIsFixed ==
    [][(crPromise = "resolved" /\ crResolvedBy = "complete") =>
            crOpen = {} /\ crawledPages' = crawledPages]_vars

----------------------------------------------------------------------------
(* Analysis orchestrator                                                    *)
(* src/src/utils/technical-seo-analyzer/index.ts, class                     *)
(* SEOAnalysisOrchestrator (the version the module exports, lines 413-689). *)
(* One instance serves one run.  The environment of a run is fixed when it  *)
(* starts: how the crawl ends and, per task, how the operation of the       *)
(* task's collaborator ends, as the orchestrator sees it.                   *)

Tasks == {"crawl", "brokenLinks", "speed", "mobile", "validation", "schema",
          "architecture"}

AnalysisStatus == {"complete", "failed", "skipped", "timed_out"}

\* The run methods handed to Promise.allSettled in full mode and in fast mode.
FullModeTasks == {"brokenLinks", "speed", "mobile", "validation", "schema"}
FastModeTasks == {"brokenLinks", "mobile", "validation"}
parallelAnalysesAll(fast) == FullModeTasks
parallelAnalyses(fast) == IF fast THEN FastModeTasks ELSE FullModeTasks

\* Fast mode marks these once the parallel tasks have settled.
skippedInFastMode == {"speed", "schema"}

\* How an operation can end.  "value": it resolves with a usable result.
\* "unusable": it resolves with a result that carries no analysis (the
\* speed auditor's {error, logs}, the mobile scanner's null).  "rejects": it
\* rejects with an error whose message mentions no timeout.  "flaky": it
\* rejects on the first attempt and resolves with a value afterwards.
\* "hangs": it has not settled when the timeout around it fires.
BehavioursOf(t) ==
    CASE t = "brokenLinks" -> {"value", "rejects", "hangs"}
      [] t = "speed"       -> {"value", "unusable", "rejects", "hangs"}
      [] t = "mobile"      -> {"value", "unusable", "hangs"}
      [] t = "validation"  -> {"value", "rejects", "flaky", "hangs"}
      [] t = "schema"      -> {"value", "hangs"}

Behaviours == UNION {BehavioursOf(t) : t \in FullModeTasks}

Collaborators ==
    {c \in [FullModeTasks -> Behaviours] : \A t \in FullModeTasks : c[t] \in BehavioursOf(t)}

\* crawl() resolves with the page map, or rejects when the crawler cannot
\* be set up for the base URL.
CrawlBehaviours == {"value", "rejects"}

outcomeOfAttempt(behaviour, n) ==
    IF behaviour = "flaky" THEN (IF n = 1 THEN "rejects" ELSE "value") ELSE behaviour

\* withRetry's maxRetries argument; a bare withTimeout is a single attempt.
maxRetries(t) == IF t \in {"mobile", "validation"} THEN 1 ELSE 0

\* Error messages, by what the tests on them can tell apart.
rejectionMessage == "error"
\* withTimeout: `${operationName} timed out after ${timeoutMs}ms`
timeoutMessage == "timed out"

\* withRetry: /timed out/i.test(lastError.message)
isTimedOut(msg) == msg = "timed out"

\* withRetry: attempt <= maxRetries && !/timed out/i.test(lastError.message)
shouldRetry(n, retries, msg) == n <= retries /\ ~isTimedOut(msg)

statusOfErrorPlain(msg) == "failed"
\* the run methods' catch: /timeout|timed out/i.test(msg) ? "timed_out" : "failed"
statusOfError(msg) == IF msg \in {"timeout", "timed out"} THEN "timed_out" ELSE "failed"

\* What the catch block of a run method leaves in results.
resultAfterError(t) ==
    CASE t = "brokenLinks" -> "empty"
      [] t = "validation"  -> "default"
      [] OTHER             -> "null"

\* The run method's path after its operation resolved.
onResolved(t, outcome) ==
    CASE t = "speed" /\ outcome = "unusable"  -> [status |-> "failed", result |-> "null"]
      [] t = "mobile" /\ outcome = "unusable" -> [status |-> "complete", result |-> "null"]
      [] OTHER                                 -> [status |-> "complete", result |-> "value"]

\* The run method's path after withRetry or withTimeout threw.
onRejected(t, msg) == [status |-> statusOfError(msg), result |-> resultAfterError(t)]

\* visualize throws on a missing page map, and only then.
architectureStatus(crawl) == IF crawl = "null" THEN "failed" ELSE "complete"

OrConstructed ==
    /\ orPc = "constructed"
    /\ taskPc = [t \in FullModeTasks |-> "idle"]
    /\ attempt = [t \in FullModeTasks |-> 1]
    /\ abandoned = {}
    /\ analysisStatus = [t \in Tasks |-> "failed"]
    /\ orResults = [t \in Tasks |-> "null"]
    /\ statusWrites = [t \in Tasks |-> 0]

StartOR ==
    /\ fastMode \in BOOLEAN
    /\ crawlBehaviour \in CrawlBehaviours
    /\ collaborators \in Collaborators
    /\ OrConstructed

IdleOR ==
    /\ fastMode = FALSE
    /\ crawlBehaviour = "value"
    /\ collaborators = [t \in FullModeTasks |-> "value"]
    /\ OrConstructed

orEnv == <<fastMode, crawlBehaviour, collaborators>>

\* runFullAnalysis up to the await on the crawl.
OrRunFullAnalysis ==
    /\ orPc = "constructed"
    /\ orPc' = "crawling"
    /\ UNCHANGED <<orEnv, taskPc, attempt, abandoned, analysisStatus, orResults, statusWrites>>
    /\ UNCHANGED orOthers

\* The crawl resolved: its result and status are stored and, in the same
\* turn, every run method of the mode is called and runs up to its await.
\* (results.crawl is the map just stored, so runBrokenLinksCheck passes its
\* guard.)
OrCrawlResolved ==
    /\ orPc = "crawling"
    /\ crawlBehaviour = "value"
    /\ orResults' = [orResults EXCEPT !["crawl"] = "value"]
    /\ analysisStatus' = [analysisStatus EXCEPT !["crawl"] = "complete"]
    /\ statusWrites' = [statusWrites EXCEPT !["crawl"] = @ + 1]
    /\ taskPc' = [t \in FullModeTasks |->
                    IF t \in parallelAnalyses(fastMode) THEN "waiting" ELSE taskPc[t]]
    /\ orPc' = "parallel"
    /\ UNCHANGED <<orEnv, attempt, abandoned>>
    /\ UNCHANGED orOthers

OrCrawlRejectedGoesOn ==
    /\ orPc = "crawling"
    /\ crawlBehaviour = "rejects"
    /\ taskPc' = [t \in FullModeTasks |->
                    IF t \in parallelAnalyses(fastMode) THEN "waiting" ELSE taskPc[t]]
    /\ orPc' = "parallel"
    /\ UNCHANGED <<orEnv, attempt, abandoned, analysisStatus, orResults, statusWrites>>
    /\ UNCHANGED orOthers

\* The crawl rejected: the outer catch rethrows and nothing else runs.
OrCrawlRejected ==
    /\ orPc = "crawling"
    /\ crawlBehaviour = "rejects"
    /\ orPc' = "thrown"
    /\ UNCHANGED <<orEnv, taskPc, attempt, abandoned, analysisStatus, orResults, statusWrites>>
    /\ UNCHANGED orOthers

\* A run method stores its result and status and returns.
OrFinish(t, r) ==
    /\ analysisStatus' = [analysisStatus EXCEPT ![t] = r.status]
    /\ orResults' = [orResults EXCEPT ![t] = r.result]
    /\ statusWrites' = [statusWrites EXCEPT ![t] = @ + 1]
    /\ taskPc' = [taskPc EXCEPT ![t] = "done"]

\* withRetry's catch: wait and try again, or throw into the run method's catch.
OrCaught(t, msg) ==
    IF shouldRetry(attempt[t], maxRetries(t), msg)
    THEN /\ taskPc' = [taskPc EXCEPT ![t] = "backoff"]
         /\ UNCHANGED <<analysisStatus, orResults, statusWrites>>
    ELSE OrFinish(t, onRejected(t, msg))

\* The operation of task t settles before the timeout around it.
OrOperationSettles(t) ==
    /\ orPc = "parallel"
    /\ taskPc[t] = "waiting"
    /\ LET outcome == outcomeOfAttempt(collaborators[t], attempt[t]) IN
        /\ outcome # "hangs"
        /\ IF outcome = "rejects"
           THEN OrCaught(t, rejectionMessage)
           ELSE OrFinish(t, onResolved(t, outcome))
    /\ UNCHANGED <<orEnv, orPc, attempt, abandoned>>
    /\ UNCHANGED orOthers

\* The timeout around the operation of task t fires first.  Promise.race
\* does not cancel the operation: it keeps running.
OrDeadline(t) ==
    /\ orPc = "parallel"
    /\ taskPc[t] = "waiting"
    /\ outcomeOfAttempt(collaborators[t], attempt[t]) = "hangs"
    /\ OrCaught(t, timeoutMessage)
    /\ abandoned' = abandoned \cup {t}
    /\ UNCHANGED <<orEnv, orPc, attempt>>
    /\ UNCHANGED orOthers

\* withRetry's wait of 1000 * attempt ms is over: next attempt.
OrBackoffElapsed(t) ==
    /\ orPc = "parallel"
    /\ taskPc[t] = "backoff"
    /\ taskPc' = [taskPc EXCEPT ![t] = "waiting"]
    /\ attempt' = [attempt EXCEPT ![t] = @ + 1]
    /\ UNCHANGED <<orEnv, orPc, abandoned, analysisStatus, orResults, statusWrites>>
    /\ UNCHANGED orOthers

\* An operation whose timeout already fired settles at last, possibly after
\* the run returned.  The race it was in is decided; no handler runs.
OrLateCompletion(t) ==
    /\ t \in abandoned
    /\ abandoned' = abandoned \ {t}
    /\ UNCHANGED <<orEnv, orPc, taskPc, attempt, analysisStatus, orResults, statusWrites>>
    /\ UNCHANGED orOthers

\* (variant) the run methods are called and not awaited
notAwaited(fast) == TRUE

\* Line 465 / 474: await Promise.allSettled([...]) goes on when every run
\* method it was given has returned.
allSettled(fast) == \A t \in parallelAnalyses(fast) : taskPc[t] = "done"

\* Promise.allSettled resolved: the rest of runFullAnalysis runs in one turn
\* (fast mode's skipped marks, the architecture step, the report, return).
OrAllSettled ==
    /\ orPc = "parallel"
    /\ allSettled(fastMode)
    /\ LET skipped == IF fastMode THEN skippedInFastMode ELSE {}
           arch    == architectureStatus(orResults["crawl"])
       IN  /\ analysisStatus' =
                [t \in Tasks |-> IF t \in skipped THEN "skipped"
                                 ELSE IF t = "architecture" THEN arch
                                 ELSE analysisStatus[t]]
           /\ orResults' =
                [orResults EXCEPT !["architecture"] =
                    IF arch = "complete" THEN "value" ELSE @]
           /\ statusWrites' =
                [t \in Tasks |-> IF t \in skipped \/ t = "architecture"
                                 THEN statusWrites[t] + 1 ELSE statusWrites[t]]
    /\ orPc' = "returned"
    /\ UNCHANGED <<orEnv, taskPc, attempt, abandoned>>
    /\ UNCHANGED orOthers

StepOR ==
    \/ OrRunFullAnalysis
    \/ OrCrawlResolved
    \/ OrCrawlRejected
    \/ \E t \in FullModeTasks : OrOperationSettles(t)
    \/ \E t \in FullModeTasks : OrDeadline(t)
    \/ \E t \in FullModeTasks : OrBackoffElapsed(t)
    \/ \E t \in FullModeTasks : OrLateCompletion(t)
    \/ OrAllSettled

\* ---- Claims about the orchestrator

\* How the collaborator of task t behaves in this run.
TimesOut(t) == collaborators[t] = "hangs"
Fails(t) == collaborators[t] = "rejects" \/ (t = "speed" /\ collaborators[t] = "unusable")
Succeeds(t) == collaborators[t] \in {"value", "flaky"}

C10_PendingThenSetOnce ==
    /\ \A t \in Tasks : analysisStatus[t] = "pending"
    /\ [][\A t \in Tasks :
            /\ analysisStatus'[t] # analysisStatus[t] =>
                    analysisStatus[t] = "pending" /\ analysisStatus'[t] \in AnalysisStatus
            /\ statusWrites'[t] <= 1
            /\ orPc = "returned" => analysisStatus'[t] = analysisStatus[t]]_vars

\* The part of C10 that does not depend on the initial value: each entry is
\* assigned at most once, to a value of AnalysisStatus, and not after the run
\* returned or threw.
AssignedAtMostOnce ==
    [][\A t \in Tasks :
            /\ statusWrites'[t] <= 1
            /\ analysisStatus'[t] \in AnalysisStatus
            /\ orPc \in {"returned", "thrown"} => analysisStatus'[t] = analysisStatus[t]]_vars

\* A task that has not finished reads as failed.
UnfinishedReadsFailed ==
    /\ orPc = "parallel"
    /\ taskPc["speed"] = "waiting"
    /\ analysisStatus["speed"] = "failed"

----------------------------------------------------------------------------
(* Further claims about the orchestrator                                    *)

\* C13: when the run has returned, no operation whose timeout fired is
\* still running in the background.
C13_NothingLeftRunning ==
    orPc = "returned" => abandoned = {}

\* The status the run method of task t records, by the task's own outcome.
StatusByOwnOutcome(t) ==
    IF TimesOut(t) THEN "timed_out" ELSE IF Fails(t) THEN "failed" ELSE "complete"

\* C19: in fast mode the speed audit and the schema check are never started
\* and the returned map has them as skipped, with no result; in fast mode
\* as in full mode the crawl and the architecture step are complete and the
\* link check, the mobile scan and the validation get the status that
\* follows from their own outcome.
C19_FastModeSkips ==
    /\ fastMode => \A t \in skippedInFastMode : taskPc[t] = "idle"
    /\ (orPc = "returned" /\ fastMode) =>
            \A t \in skippedInFastMode :
                analysisStatus[t] = "skipped" /\ orResults[t] = "null" /\ statusWrites[t] = 1
    /\ orPc = "returned" =>
            /\ analysisStatus["crawl"] = "complete"
            /\ analysisStatus["architecture"] = "complete"
            /\ \A t \in FastModeTasks : analysisStatus[t] = StatusByOwnOutcome(t)

\* A fast-mode run has returned; its link check timed out, its validation
\* failed and its mobile scan succeeded.
C19_Witness ==
    /\ orPc = "returned"
    /\ fastMode
    /\ analysisStatus["speed"] = "skipped"
    /\ analysisStatus["schema"] = "skipped"
    /\ TimesOut("brokenLinks") /\ analysisStatus["brokenLinks"] = "timed_out"
    /\ Fails("validation") /\ analysisStatus["validation"] = "failed"
    /\ Succeeds("mobile") /\ analysisStatus["mobile"] = "complete"

\* C20: runFullAnalysis throws only when the crawl failed, and then no task
\* was started and no status was written; when the crawl succeeded the run
\* returns whatever the other tasks do, a failed or timed-out task having
\* written its own entry, once.
C20_OnlyCrawlAborts ==
    /\ [](orPc = "thrown" =>
            /\ crawlBehaviour = "rejects"
            /\ \A t \in FullModeTasks : taskPc[t] = "idle"
            /\ \A t \in Tasks : statusWrites[t] = 0)
    /\ [](crawlBehaviour = "rejects" => \A t \in FullModeTasks : taskPc[t] = "idle")
    /\ [](orPc = "returned" =>
            \A t \in parallelAnalyses(fastMode) :
                (TimesOut(t) \/ Fails(t)) =>
                    statusWrites[t] = 1 /\ analysisStatus[t] \in {"failed", "timed_out"})
    /\ ((orPc = "crawling" /\ crawlBehaviour = "value") ~> (orPc = "returned"))

\* Every parallel task of a full-mode run failed or timed out, and the run
\* has returned.
C20_Witness ==
    /\ orPc = "returned"
    /\ ~fastMode
    /\ \A t \in parallelAnalyses(fastMode) \ {"mobile"} : TimesOut(t) \/ Fails(t)
    /\ TimesOut("mobile")
    /\ Fails("speed")

\* C25: a run method (the link checker, an auditor) has been called only
\* when the crawl has completed, and the depth map has been derived only
\* when every run method that was called has returned, with a result, a
\* failure or a timeout.
C25_CrawlFirstDepthMapLast ==
    /\ \A t \in FullModeTasks :
          taskPc[t] # "idle" => orResults["crawl"] = "value" /\ analysisStatus["crawl"] = "complete"
    /\ statusWrites["architecture"] > 0 =>
          \A t \in FullModeTasks : taskPc[t] \in {"idle", "done"}

\* A full-mode run has returned with the depth map after one of its tasks
\* succeeded, one failed and one timed out.
C25_Witness ==
    /\ orPc = "returned"
    /\ ~fastMode
    /\ orResults["architecture"] = "value"
    /\ \E t \in FullModeTasks : Succeeds(t)
    /\ \E t \in FullModeTasks : Fails(t)
    /\ \E t \in FullModeTasks : TimesOut(t)

\* C28: in what runFullAnalysis returns, every task whose status is
\* complete has a result that is not null.
C28_CompleteHasResult ==
    orPc = "returned" =>
        \A t \in Tasks : analysisStatus[t] = "complete" => orResults[t] # "null"

\* The part of C28 that holds: every task but the mobile analysis has a
\* result when its status is complete.
CompleteHasResultButMobile ==
    orPc = "returned" =>
        \A t \in Tasks \ {"mobile"} : analysisStatus[t] = "complete" => orResults[t] # "null"

----------------------------------------------------------------------------
(* withRetry as a unit                                                      *)
(* src/src/utils/technical-seo-analyzer/index.ts, lines 504-535: one call   *)
(* of withRetry(operation, name, maxRetries, timeoutMs) with an operation   *)
(* that may end differently at every invocation.                            *)

MaxRetries == 2    \* largest maxRetries argument (the parameter's default)

\* Messages of the errors an operation rejects with, by what the tests on
\* them tell apart: no timeout at all; a socket timeout named by its code
\* ("connect ETIMEDOUT 10.0.0.1:80"); the word timeout ("timeout of 12000ms
\* exceeded"); the words timed out ("Request timed out").
OperationErrors == {"error", "ETIMEDOUT", "timeout", "timed out"}

StartWR ==
    /\ wrMaxRetries \in 0..MaxRetries
    /\ wrPc = "waiting"
    /\ wrAttempt = 1
    /\ wrLastError = "none"
    /\ wrInvocations = <<>>
    /\ wrWaits = <<>>

IdleWR ==
    /\ wrMaxRetries = 0
    /\ wrPc = "idle"
    /\ wrAttempt = 1
    /\ wrLastError = "none"
    /\ wrInvocations = <<>>
    /\ wrWaits = <<>>

\* (variant) the same wait after every failed attempt
backoffFixed(k) == 1000 + 0 * k

\* Line 527: setTimeout(resolve, 1000 * attempt).
backoffMs(k) == 1000 * k

\* The catch block of the loop: remember the error, then wait or break (and
\* throw lastError after the loop).
WrCatch(msg, how) ==
    /\ wrLastError' = msg
    /\ wrInvocations' = Append(wrInvocations, how)
    /\ wrPc' = IF shouldRetry(wrAttempt, wrMaxRetries, msg) THEN "backoff" ELSE "thrown"
    /\ wrWaits' = IF shouldRetry(wrAttempt, wrMaxRetries, msg)
                  THEN Append(wrWaits, backoffMs(wrAttempt)) ELSE wrWaits
    /\ UNCHANGED <<wrMaxRetries, wrAttempt>>

\* The operation resolves before the timeout: withRetry returns its value.
WrResolves ==
    /\ wrPc = "waiting"
    /\ wrInvocations' = Append(wrInvocations, "value")
    /\ wrPc' = "returned"
    /\ UNCHANGED <<wrMaxRetries, wrAttempt, wrLastError, wrWaits>>
    /\ UNCHANGED wrOthers

\* The operation rejects before the timeout.
WrRejects(msg) ==
    /\ wrPc = "waiting"
    /\ WrCatch(msg, msg)
    /\ UNCHANGED wrOthers

\* withTimeout's timer fires first.
WrDeadline ==
    /\ wrPc = "waiting"
    /\ WrCatch(timeoutMessage, "deadline")
    /\ UNCHANGED wrOthers

\* The wait of 1000 * attempt ms is over: the loop invokes operation() again.
WrBackoffElapsed ==
    /\ wrPc = "backoff"
    /\ wrAttempt' = wrAttempt + 1
    /\ wrPc' = "waiting"
    /\ UNCHANGED <<wrMaxRetries, wrLastError, wrInvocations, wrWaits>>
    /\ UNCHANGED wrOthers

StepWR ==
    \/ WrResolves
    \/ \E msg \in OperationErrors : WrRejects(msg)
    \/ WrDeadline
    \/ WrBackoffElapsed

\* ---- Claims about withRetry

\* How an invocation can fail because of a timeout: the wrapper's deadline,
\* or a timeout error of the operation itself.
TimeoutFailures == {"deadline", "ETIMEDOUT", "timeout", "timed out"}

DeadlineNeverRetried ==
    /\ \A i \in 1..Len(wrInvocations) :
            wrInvocations[i] \in {"deadline", "timed out"} =>
                i = Len(wrInvocations) /\ wrPc = "thrown"
    /\ (wrPc = "thrown" /\ wrInvocations[Len(wrInvocations)] \in {"deadline", "timed out"}) =>
            statusOfError(wrLastError) = "timed_out"

----------------------------------------------------------------------------
(* Analyze request                                                          *)
(* src/src/controllers/seoAnalyzer.ts, analyzeController.handleAnalyze      *)
(* (lines 25-86) around src/src/utils/analyzeUrl.ts, analyzeUrl (57-112),   *)
(* which runs the orchestrator in full mode next to the website analysis.   *)
(* Both deadlines come from the environment (ANALYZE_TIMEOUT_MS,            *)
(* SEO_ANALYSIS_TIMEOUT_MS), so either can elapse at any point of the run.  *)

NoStatuses == [t \in Tasks |-> "absent"]
NoResponse == [code |-> 0, seo |-> "none", statuses |-> NoStatuses]
SeoPending == [success |-> FALSE, data |-> "pending", error |-> "none"]

RequestIdle ==
    /\ rqWebsite = "pending"
    /\ rqSeo = SeoPending
    /\ rqResponse = NoResponse
    /\ rqAssigned = {}

\* The collaborator behaviours the request is checked with: a speed audit
\* that may hang and a validator that may need its retry, the rest succeed.
RequestCollaborators ==
    {c \in Collaborators :
        /\ c["speed"] \in {"value", "hangs"}
        /\ c["validation"] \in {"value", "flaky"}
        /\ \A t \in {"brokenLinks", "mobile", "schema"} : c[t] = "value"}

StartRQ == rqPc = "running" /\ RequestIdle
IdleRQ == rqPc = "idle" /\ RequestIdle

orFinished == orPc \in {"returned", "thrown"}
seoSettled == rqSeo.data # "pending"

\* handleAnalyze's catch: the status code for an error message.
errorCode(msg) == IF msg = "Request timeout" THEN 408 ELSE 500

\* analyzeUrl's result.seo, from what its withTimeout resolved with
\* (data: undefined whenever success is false).
seoReport(seo) == IF seo.success THEN "completed" ELSE "failed"
seoStatuses(seo, status) == IF seo.success THEN status ELSE NoStatuses

\* analyzeUrl resolved and handleAnalyze, still waiting, answers 200.
RqRespond(website, seo) ==
    IF rqPc = "running" /\ website = "done" /\ seo.data # "pending"
    THEN /\ rqPc' = "responded"
         /\ rqResponse' = [code |-> 200, seo |-> seoReport(seo),
                           statuses |-> seoStatuses(seo, analysisStatus)]
         /\ rqAssigned' = {t \in Tasks : statusWrites[t] > 0}
    ELSE UNCHANGED <<rqPc, rqResponse, rqAssigned>>

\* analyzeWebsite resolves.
RqWebsiteDone ==
    /\ rqPc # "idle"
    /\ rqWebsite = "pending"
    /\ rqWebsite' = "done"
    /\ RqRespond("done", rqSeo)
    /\ UNCHANGED rqSeo
    /\ UNCHANGED rqOthers

\* analyzeWebsite rejects: Promise.all and analyzeUrl reject, the handler's
\* catch answers with an error.
RqWebsiteFails ==
    /\ rqPc # "idle"
    /\ rqWebsite = "pending"
    /\ rqWebsite' = "failed"
    /\ IF rqPc = "running"
       THEN /\ rqPc' = "responded"
            /\ rqResponse' = [NoResponse EXCEPT !.code = errorCode("Failed to fetch URL")]
            /\ rqAssigned' = {t \in Tasks : statusWrites[t] > 0}
       ELSE UNCHANGED <<rqPc, rqResponse, rqAssigned>>
    /\ UNCHANGED rqSeo
    /\ UNCHANGED rqOthers

\* runFullAnalysis settled before analyzeUrl's SEO timeout.
RqSeoSettles ==
    /\ rqPc # "idle"
    /\ ~seoSettled
    /\ orFinished
    /\ rqSeo' = IF orPc = "returned"
                THEN [success |-> TRUE, data |-> "report", error |-> "none"]
                ELSE [success |-> FALSE, data |-> "undefined", error |-> "crawl failed"]
    /\ RqRespond(rqWebsite, rqSeo')
    /\ UNCHANGED rqWebsite
    /\ UNCHANGED rqOthers

\* analyzeUrl's SEO timeout fires while runFullAnalysis is still running.
RqSeoTimeout ==
    /\ rqPc # "idle"
    /\ ~seoSettled
    /\ ~orFinished
    /\ rqSeo' = [success |-> FALSE, data |-> "undefined", error |-> "SEO analysis timeout"]
    /\ RqRespond(rqWebsite, rqSeo')
    /\ UNCHANGED rqWebsite
    /\ UNCHANGED rqOthers

\* handleAnalyze's timeoutPromise rejects first: the catch answers 408.
RqOuterDeadline ==
    /\ rqPc = "running"
    /\ rqPc' = "responded"
    /\ rqResponse' = [NoResponse EXCEPT !.code = errorCode("Request timeout")]
    /\ rqAssigned' = {t \in Tasks : statusWrites[t] > 0}
    /\ UNCHANGED <<rqWebsite, rqSeo>>
    /\ UNCHANGED rqOthers

StepRQ ==
    \/ RqWebsiteDone
    \/ RqWebsiteFails
    \/ RqSeoSettles
    \/ RqSeoTimeout
    \/ RqOuterDeadline

\* ---- Claims about the request deadline

\* The response was sent because a deadline elapsed while the orchestrator
\* had not finished, and some task had completed by then.
CutByDeadline ==
    /\ rqPc = "responded"
    /\ rqAssigned # {}
    /\ \/ rqResponse.code = 408
       \/ rqResponse.code = 200 /\ rqSeo.error = "SEO analysis timeout"

\* C12: a response sent because a deadline elapsed before the analysis
\* finished is a report that carries, for every task that had completed by
\* then, that task's status.
C12_DeadlineReturnsPartial ==
    CutByDeadline =>
        /\ rqResponse.code = 200
        /\ \A t \in rqAssigned : rqResponse.statuses[t] = analysisStatus[t]

\* The part of C12 that holds: the wait ends at the deadline although tasks
\* of the orchestrator are still running.
RespondedWhileRunning ==
    /\ rqPc = "responded"
    /\ orPc = "parallel"
    /\ rqResponse.code = 408

----------------------------------------------------------------------------
(* SSRF guard                                                               *)
(* src/src/utils/ssrf.ts (ssrfCheck) and the URL validation of the two      *)
(* handlers that use it: validateAndSanitizeUrl of the SEO analysis handler *)
(* (src/unnamed/part_002, lines 83-142) and handleRedirectCheck             *)
(* (src/src/controllers/seoAnalyzer.ts, lines 415-451).                     *)

MaxAddresses == 2   \* most A records one name resolves to

\* IPv4 addresses by their first two octets, which is all the guard's
\* pattern looks at; IPv6 addresses by name.
FirstOctets == {10, 93, 127, 169, 172, 192}
SecondOctets == {15, 16, 31, 32, 168, 254}
IPv4 == [a : FirstOctets, b : SecondOctets]
IPv6 == {"::1", "2606:4700::1111"}

Schemes == {"http:", "ftp:"}
Hosts == [kind : {"literal"}, ip : IPv4] \cup [kind : {"name"}, ip : {[a |-> 0, b |-> 0]}]
SsrfUrls == [scheme : Schemes, host : Hosts]

ResolveFailed == [ok |-> FALSE, addresses |-> {}]
\* The sets of at most n addresses.
RECURSIVE AddressSets(_)
AddressSets(n) ==
    IF n = 0 THEN {{}}
    ELSE LET smaller == AddressSets(n - 1)
         IN  smaller \cup {s \cup {ip} : s \in smaller, ip \in IPv4}

ResolveAnswers ==
    {ResolveFailed} \cup
    {[ok |-> TRUE, addresses |-> s] : s \in AddressSets(MaxAddresses) \ {{}}}

\* What the resolver can answer for a host.  A name has the records its
\* zone has.  For a literal IP the answer of resolve4 depends on the
\* resolver library: the address itself, or a failed lookup.
AnswersFor(host) ==
    IF host.kind = "literal"
    THEN {ResolveFailed, [ok |-> TRUE, addresses |-> {host.ip}]}
    ELSE ResolveAnswers

\* ssrfCheck.isValidHttpUrl
isValidHttpUrl(url) == url.scheme \in {"http:", "https:"}

\* isSafeHost: /^10\.|^127\.|^192\.168\.|^172\.(1[6-9]|2[0-9]|3[0-1])\./
matchesPrivatePattern(ip) ==
    \/ ip.a = 10
    \/ ip.a = 127
    \/ ip.a = 192 /\ ip.b = 168
    \/ ip.a = 172 /\ ip.b \in 16..31

\* ssrfCheck.isSafeHost: resolve4, then every address must miss the
\* pattern; any exception (a failed lookup included) gives false.
isSafeHost(url, answer) ==
    IF answer.ok
    THEN \A ip \in answer.addresses : ~matchesPrivatePattern(ip)
    ELSE FALSE

\* validateAndSanitizeUrl of the SEO analysis handler.  isSafeHost catches
\* its own exceptions, so the catch around the call is never entered.
validateAndSanitizeUrl(url, skipSSRF, answer) ==
    IF ~isValidHttpUrl(url) THEN "INVALID_URL"
    ELSE IF ~skipSSRF /\ ~isSafeHost(url, answer) THEN "SSRF_BLOCKED"
    ELSE "valid"

\* handleRedirectCheck, lines 428-439: for a dotted-quad hostname it calls
\* ssrfCheck.isPrivateIP, a member ssrfCheck (ssrf.ts:3-22) does not have;
\* the TypeError is swallowed by the catch and isPrivate stays false.
redirectIsPrivate(host) == FALSE

\* handleRedirectCheck's URL validation.
redirectValidation(url) ==
    IF ~isValidHttpUrl(url) THEN "INVALID_URL"
    ELSE IF redirectIsPrivate(url.host) THEN "PRIVATE_NETWORK_BLOCKED"
    ELSE "valid"

GuardIdle ==
    /\ sfVerdict = "none"
    /\ guardAllowed = {}

StartSF ==
    /\ sfEntry \in {"seo", "redirect"}
    /\ sfUrl \in SsrfUrls
    /\ sfSkipSSRF \in BOOLEAN
    /\ sfA \in AnswersFor(sfUrl.host)
    /\ sfAAAA \in (IF sfUrl.host.kind = "literal" THEN {{}} ELSE SUBSET IPv6)
    /\ GuardIdle

IdleSF ==
    /\ sfEntry = "seo"
    /\ sfUrl = [scheme |-> "http:", host |-> [kind |-> "name", ip |-> [a |-> 0, b |-> 0]]]
    /\ sfSkipSSRF = FALSE
    /\ sfA = [ok |-> TRUE, addresses |-> {[a |-> 93, b |-> 168]}]
    /\ sfAAAA = {}
    /\ GuardIdle

sfEnv == <<sfEntry, sfUrl, sfSkipSSRF, sfA, sfAAAA>>

\* The handler validates the request URL.
SfValidate ==
    /\ sfVerdict = "none"
    /\ sfVerdict' = IF sfEntry = "seo"
                    THEN validateAndSanitizeUrl(sfUrl, sfSkipSSRF, sfA)
                    ELSE redirectValidation(sfUrl)
    /\ UNCHANGED <<sfEnv, guardAllowed>>
    /\ UNCHANGED sfOthers

\* The handler goes on to the analysis with a URL it found valid.
SfProceed ==
    /\ sfVerdict = "valid"
    /\ sfVerdict' = "analysing"
    /\ UNCHANGED <<sfEnv, guardAllowed>>
    /\ UNCHANGED sfOthers

StepSF == SfValidate \/ SfProceed

\* ---- Claims about the SSRF guard

\* Loopback, RFC 1918 private and link-local addresses.
IsInternalV4(ip) ==
    \/ ip.a = 127
    \/ ip.a = 10
    \/ ip.a = 172 /\ ip.b \in 16..31
    \/ ip.a = 192 /\ ip.b = 168
    \/ ip.a = 169 /\ ip.b = 254
IsInternalV6(ip) == ip = "::1"

\* The addresses the request URL's host stands for.
AddressesV4 == IF sfUrl.host.kind = "literal" THEN {sfUrl.host.ip} ELSE sfA.addresses
SomeInternal ==
    \/ \E ip \in AddressesV4 : IsInternalV4(ip)
    \/ \E ip \in sfAAAA : IsInternalV6(ip)
AllPublic ==
    /\ sfUrl.host.kind = "name"
    /\ AddressesV4 \cup sfAAAA # {}
    /\ ~SomeInternal

\* The guard was applied to an HTTP URL and has decided.
GuardDecided ==
    /\ sfVerdict \notin {"none", "INVALID_URL"}
    /\ sfEntry = "seo" => ~sfSkipSSRF

\* C14: once the guard has decided about a URL, the URL is rejected if its
\* literal IP host or any address of its DNS name is loopback, private or
\* link-local, and it is allowed if its name has addresses and all of them
\* are public.
C14_GuardRejectsInternal ==
    GuardDecided =>
        /\ SomeInternal => sfVerdict \in {"SSRF_BLOCKED", "PRIVATE_NETWORK_BLOCKED"}
        /\ AllPublic => sfVerdict \in {"valid", "analysing"}

\* The part of C14 that holds: isSafeHost rejects a URL when dns.resolve4
\* answers with a loopback or RFC 1918 address, and allows a name whose A
\* records are all public.
ResolvedPrivateRejected ==
    (sfVerdict # "none" /\ sfEntry = "seo" /\ ~sfSkipSSRF /\ isValidHttpUrl(sfUrl) /\ sfA.ok) =>
        /\ (\E ip \in sfA.addresses : IsInternalV4(ip) /\ ~(ip.a = 169)) => sfVerdict = "SSRF_BLOCKED"
        /\ (\A ip \in sfA.addresses : ~IsInternalV4(ip)) => sfVerdict \in {"valid", "analysing"}

\* C15: when the lookup of the host fails for both address families, the
\* guard allows the URL and the request goes on to the analysis.
C15_FailsOpen ==
    (sfEntry = "seo" /\ ~sfSkipSSRF /\ isValidHttpUrl(sfUrl) /\ sfUrl.host.kind = "name"
        /\ ~sfA.ok /\ sfAAAA = {} /\ sfVerdict # "none") =>
            sfVerdict \in {"valid", "analysing"}

----------------------------------------------------------------------------
(* Guarded fetches                                                          *)
(* handleRedirectCheck (src/src/controllers/seoAnalyzer.ts, lines 352-480)  *)
(* validates the request URL and then hands it to RedirectChecker.check,    *)
(* whose loop fetches the URL and every redirect target after it.           *)

\* Lines 415-451: the request URL, an HTTP URL, passed the handler's
\* validation (redirectValidation gives "valid" for every HTTP URL).
GfGuard(url) ==
    /\ rdPc = "idle"
    /\ guardAllowed = {}
    /\ guardAllowed' = {url}
    /\ UNCHANGED <<sfEnv, sfVerdict>>
    /\ UNCHANGED sfOthers

\* The handler calls check only with the URL it validated.
StepGF ==
    \/ \E url \in Urls : GfGuard(url)
    \/ \E opt \in RequestedMaxRedirects, url \in guardAllowed : RdStart(opt, url)
    \/ RdHop
    \/ RdReturn

\* C16: every URL that was fetched had been checked and allowed by the
\* guard before.
C16_FetchOnlyAfterGuard ==
    \A i \in DOMAIN results : results[i].url \in guardAllowed

\* The first fetch of a check is of the validated request URL.
FirstFetchValidated ==
    Len(results) > 0 => results[1].url \in guardAllowed

----------------------------------------------------------------------------
(* Broken link checker                                                      *)
(* src/src/utils/technical-seo-analyzer/link-checker.ts                     *)
(* A link URL is a number, the URL of page p is PageUrl(p), and what a link *)
(* redirects to is a URL of its own that no page links to.                  *)

\* Bound: the number of pages of the page graph.
MaxPages == 4

\* Lines 38-41: the constructor's defaults; runBrokenLinksCheck (index.ts,
\* line 545) passes no options.
concurrency == 5
perPageLimit == 5
totalLimit == 15

undefined == "undefined"

\* A status field holds a number or a string.
jsNumber(n) == [type |-> "number", value |-> n, text |-> ""]
jsString(t) == [type |-> "string", value |-> 0, text |-> t]
NaN == [type |-> "number", value |-> 0, text |-> "NaN"]

PageUrl(p) == 1000 + p
TargetOf(link) == 2000 + link

\* The links of the pages the crawler hands over: a page that failed to load
\* (crawler.ts, lines 94-106: error, no links), a page without links, a page
\* with four links that every such page has, a page with seven links of its
\* own, and a page with the first of those four, then links of its own of
\* which one comes twice.
PageShapes == {"error", "none", "few", "many", "repeats"}
OwnLink(p, k) == 4 + 7 * (p - 1) + k
PageOf(p, shape) ==
    CASE shape = "error"   -> [error |-> TRUE, status |-> 408, links |-> <<>>]
      [] shape = "none"    -> [error |-> FALSE, status |-> 200, links |-> <<>>]
      [] shape = "few"     -> [error |-> FALSE, status |-> 200, links |-> <<1, 2, 3, 4>>]
      [] shape = "many"    -> [error |-> FALSE, status |-> 200,
                               links |-> [k \in 1..7 |-> OwnLink(p, k)]]
      [] shape = "repeats" -> [error |-> FALSE, status |-> 200,
                               links |-> <<1, OwnLink(p, 1), OwnLink(p, 1),
                                           OwnLink(p, 2), OwnLink(p, 3), OwnLink(p, 4),
                                           OwnLink(p, 5)>>]
PageGraphs == {[p \in 1..MaxPages |-> PageOf(p, shapes[p])] : shapes \in [1..MaxPages -> PageShapes]}

\* What a request meets: an answer with a status and perhaps a Location
\* header, or an exception with its message (validateStatus accepts every
\* status, so no status makes axios throw).
Answer(status, location) == [throws |-> FALSE, status |-> status, location |-> location, message |-> undefined]
Throws(message) == [throws |-> TRUE, status |-> 0, location |-> FALSE, message |-> message]
NoGet == Throws("unused")

\* What one link meets: the answer to HEAD and, if asked, the answer to GET.
Scenarios ==
    << [head |-> Answer(200, FALSE), get |-> NoGet],
       [head |-> Answer(301, TRUE),  get |-> NoGet],
       [head |-> Answer(304, FALSE), get |-> NoGet],
       [head |-> Answer(399, TRUE),  get |-> NoGet],
       [head |-> Answer(400, FALSE), get |-> NoGet],
       [head |-> Answer(404, TRUE),  get |-> NoGet],
       [head |-> Answer(500, FALSE), get |-> NoGet],
       [head |-> Throws("timeout of 3000ms exceeded"), get |-> NoGet],
       [head |-> Answer(405, FALSE), get |-> Answer(200, FALSE)],
       [head |-> Answer(405, FALSE), get |-> Answer(302, TRUE)],
       [head |-> Answer(405, FALSE), get |-> Answer(404, FALSE)],
       [head |-> Answer(501, FALSE), get |-> Answer(300, FALSE)],
       [head |-> Answer(501, FALSE), get |-> Throws("socket hang up")],
       [head |-> Answer(405, FALSE), get |-> Answer(405, FALSE)] >>
\* The webs: which scenario the first link meets.
Shifts == {0, 7}
ScenarioOf(link, shift) == Scenarios[((link + shift) % Len(Scenarios)) + 1]

\* Array.prototype.slice(begin, end), begin and end counted from zero.
sliceAll(s, begin, end) == s
slice(s, begin, end) == SubSeq(s, begin + 1, Min2(end, Len(s)))

SeqRange(s) == {s[i] : i \in DOMAIN s}

\* Lines 56-61: the inner loop over one page's first perPageLimit links;
\* acc holds checkedUrls and allLinks.
RECURSIVE addLinks(_, _, _)
addLinks(acc, links, referer) ==
    IF links = <<>> THEN acc
    ELSE LET link == Head(links)
             next == IF link \in acc.checkedUrls THEN acc
                     ELSE [acc EXCEPT !.checkedUrls = @ \cup {link},
                                      !.allLinks = Append(@, [url |-> link, referer |-> referer])]
         IN addLinks(next, Tail(links), referer)

\* Lines 50-62: the loop over the pages, from page p on.
RECURSIVE collect(_, _, _)
collect(acc, pages, p) ==
    IF p > Len(pages) THEN acc
    ELSE LET data == pages[p]
             next == IF data.error
                     THEN [acc EXCEPT !.broken = Append(@, [url |-> PageUrl(p), status |-> jsNumber(data.status),
                                                            error |-> undefined,
                                                            referer |-> "Crawler detected"])]
                     ELSE addLinks(acc, slice(data.links, 0, perPageLimit), PageUrl(p))
         IN collect(next, pages, p + 1)

\* Lines 78-98: the requests one probe makes and what it returns.
response(link, shift) ==
    LET s == ScenarioOf(link, shift)
    IN IF ~s.head.throws /\ s.head.status \in {405, 501} THEN s.get ELSE s.head
requestsOf(link, shift) ==
    LET s == ScenarioOf(link, shift)
    IN IF ~s.head.throws /\ s.head.status \in {405, 501}
       THEN <<[method |-> "HEAD", url |-> link], [method |-> "GET", url |-> link]>>
       ELSE <<[method |-> "HEAD", url |-> link]>>
checkSingleLink(link, referer, shift) ==
    LET r == response(link, shift)
    IN IF r.throws
       THEN [type |-> "broken",
             data |-> [url |-> link, status |-> jsString("Error"), error |-> r.message, referer |-> referer]]
       ELSE IF r.status >= 400
       THEN [type |-> "broken",
             data |-> [url |-> link, status |-> jsNumber(r.status), error |-> undefined, referer |-> referer]]
       ELSE IF r.status >= 300 /\ r.status < 400
       THEN [type |-> "redirect",
             data |-> [from |-> link, to |-> IF r.location THEN TargetOf(link) ELSE undefined,
                       status |-> r.status, referer |-> referer]]
       ELSE [type |-> "ok", data |-> undefined]

\* Lines 67-74: the results of one batch, in the order of the batch.
RECURSIVE pushAll(_, _, _)
pushAll(list, settled, type) ==
    IF settled = <<>> THEN list
    ELSE pushAll(IF Head(settled).type = type THEN Append(list, Head(settled).data) ELSE list,
                 Tail(settled), type)

\* index.ts, lines 551-560: what runBrokenLinksCheck keeps of the result.
\* Number("Error") is NaN, and a redirect has no field url.
toNumber(status) == IF status.type = "string" THEN NaN ELSE status
brokenLinksResult(broken, redirects) ==
    [broken |-> [i \in DOMAIN broken |-> [url |-> broken[i].url, status |-> toNumber(broken[i].status)]],
     redirects |-> [i \in DOMAIN redirects |-> [url |-> undefined, to |-> redirects[i].to]]]

LcIdleState ==
    /\ lcLinksToCheck = <<>>
    /\ lcNext = 0
    /\ lcBroken = <<>>
    /\ lcRedirects = <<>>
    /\ lcProbes = <<>>
    /\ lcInFlight = {}

StartLC ==
    /\ lcPages \in PageGraphs
    /\ lcShift \in Shifts
    /\ lcPc = "start"
    /\ LcIdleState

IdleLC ==
    /\ lcPages = <<>>
    /\ lcShift = 0
    /\ lcPc = "idle"
    /\ LcIdleState

\* Lines 45-63: checkLinks up to the first batch.
LcCollect ==
    /\ lcPc = "start"
    /\ LET acc == collect([checkedUrls |-> {}, allLinks |-> <<>>, broken |-> <<>>], lcPages, 1)
       IN /\ lcBroken' = acc.broken
          /\ lcLinksToCheck' = slice(acc.allLinks, 0, totalLimit)
    /\ lcNext' = 0
    /\ lcPc' = "probing"
    /\ UNCHANGED <<lcPages, lcShift, lcRedirects, lcProbes, lcInFlight>>
    /\ UNCHANGED lcOthers

\* (variant) every link that is left is probed at once
batchWhole(i) == slice(lcLinksToCheck, i, Len(lcLinksToCheck))

\* Line 66: const batch = linksToCheck.slice(i, i + this.concurrency).
batchOf(i) == slice(lcLinksToCheck, i, i + concurrency)

\* Lines 65-67: the probes of the next batch are started together.
LcStartBatch ==
    /\ lcPc = "probing"
    /\ lcNext < Len(lcLinksToCheck)
    /\ LET batch == batchOf(lcNext)
       IN /\ lcInFlight' = {lcNext + i : i \in DOMAIN batch}
          /\ lcProbes' = lcProbes \o [i \in DOMAIN batch |->
                             [url |-> batch[i].url, referer |-> batch[i].referer,
                              requests |-> requestsOf(batch[i].url, lcShift)]]
    /\ lcPc' = "awaiting"
    /\ UNCHANGED <<lcPages, lcShift, lcLinksToCheck, lcNext, lcBroken, lcRedirects>>
    /\ UNCHANGED lcOthers

\* Lines 78-98: the probe of the link at position i returns; it never throws.
LcProbeSettles(i) ==
    /\ lcPc = "awaiting"
    /\ i \in lcInFlight
    /\ lcInFlight' = lcInFlight \ {i}
    /\ UNCHANGED <<lcPages, lcShift, lcPc, lcLinksToCheck, lcNext, lcBroken, lcRedirects, lcProbes>>
    /\ UNCHANGED lcOthers

\* Lines 67-74: Promise.all resolved, every probe of the batch has returned;
\* the results are taken in the order of the batch.
LcBatchDone ==
    /\ lcPc = "awaiting"
    /\ lcInFlight = {}
    /\ LET batch == batchOf(lcNext)
           settled == [i \in DOMAIN batch |-> checkSingleLink(batch[i].url, batch[i].referer, lcShift)]
       IN /\ lcBroken' = pushAll(lcBroken, settled, "broken")
          /\ lcRedirects' = pushAll(lcRedirects, settled, "redirect")
    /\ lcNext' = lcNext + concurrency
    /\ lcPc' = "probing"
    /\ UNCHANGED <<lcPages, lcShift, lcLinksToCheck, lcInFlight, lcProbes>>
    /\ UNCHANGED lcOthers

\* Line 76: checkLinks returns.
LcReturn ==
    /\ lcPc = "probing"
    /\ lcNext >= Len(lcLinksToCheck)
    /\ lcPc' = "done"
    /\ UNCHANGED <<lcPages, lcShift, lcLinksToCheck, lcNext, lcBroken, lcRedirects, lcProbes, lcInFlight>>
    /\ UNCHANGED lcOthers

StepLC ==
    \/ LcCollect
    \/ LcStartBatch
    \/ \E i \in lcInFlight : LcProbeSettles(i)
    \/ LcBatchDone
    \/ LcReturn

(* Claims about the link checker *)

ProbesOf(url) == {i \in DOMAIN lcProbes : lcProbes[i].url = url}
ProbesFrom(referer) == {i \in DOMAIN lcProbes : lcProbes[i].referer = referer}

\* C17: for every page graph, no link URL is probed more than once, no page
\* is the referer of more than perPageLimit probes, and no more than
\* totalLimit links are probed in all.
C17_ProbesAreCapped ==
    /\ \A i \in DOMAIN lcProbes : ProbesOf(lcProbes[i].url) = {i}
    /\ \A p \in DOMAIN lcPages : Cardinality(ProbesFrom(PageUrl(p))) <= perPageLimit
    /\ Len(lcProbes) <= totalLimit

\* A graph with more than totalLimit distinct links, a page with more than
\* perPageLimit links and a link that occurs twice: the checker has returned
\* after totalLimit probes, perPageLimit of them for one page.
C17_Witness ==
    /\ lcPc = "done"
    /\ Len(lcProbes) = totalLimit
    /\ \E p \in DOMAIN lcPages :
        /\ Len(lcPages[p].links) > perPageLimit
        /\ Cardinality(ProbesFrom(PageUrl(p))) = perPageLimit
    /\ \E p \in DOMAIN lcPages : \E i, j \in DOMAIN lcPages[p].links :
        i < j /\ lcPages[p].links[i] = lcPages[p].links[j] /\ ProbesOf(lcPages[p].links[i]) # {}
    /\ \E p, q \in DOMAIN lcPages :
        p < q /\ SeqRange(lcPages[p].links) \cap SeqRange(lcPages[q].links) # {}

\* C26: at no moment are more than concurrency probes in flight, those in
\* flight belong to one batch, and the probes of a batch are started only
\* when every probe of the batch before it has returned.
C26_BatchesInTurn ==
    /\ [](/\ Cardinality(lcInFlight) <= concurrency
          /\ \A i \in lcInFlight : lcNext < i /\ i <= lcNext + concurrency
          /\ Len(lcProbes) <= lcNext + concurrency)
    /\ [][Len(lcProbes') > Len(lcProbes) => lcInFlight = {}]_vars

\* A second batch is in flight: five probes have returned, and of the five
\* started after them some have returned and some have not.
C26_Witness ==
    /\ lcNext = concurrency
    /\ Len(lcProbes) = 2 * concurrency
    /\ Cardinality(lcInFlight) \in 1..(concurrency - 1)

InBroken(url) == {i \in DOMAIN lcBroken : lcBroken[i].url = url}
InRedirects(url) == {i \in DOMAIN lcRedirects : lcRedirects[i].from = url}

\* C18: every probed link is classified from the answer to HEAD, or to GET
\* when HEAD answered 405 or 501: a status of 400 or more lists it as broken
\* with that status, a status of 300-399 with a Location header lists it as a
\* redirect to that target, an exception lists it as broken with the error
\* text as status, and every other link is in neither list; no request goes
\* to a redirect target.
C18_ClassifiedFromResponse ==
    lcPc = "done" =>
        \A i \in DOMAIN lcProbes :
            LET url == lcProbes[i].url
                r == response(url, lcShift)
            IN /\ \A k \in DOMAIN lcProbes[i].requests : lcProbes[i].requests[k].url = url
               /\ CASE r.throws ->
                         /\ InRedirects(url) = {}
                         /\ \E b \in InBroken(url) : lcBroken[b].status = jsString(r.message)
                    [] ~r.throws /\ r.status >= 400 ->
                         /\ InRedirects(url) = {}
                         /\ \E b \in InBroken(url) : lcBroken[b].status = jsNumber(r.status)
                    [] ~r.throws /\ r.status \in 300..399 /\ r.location ->
                         /\ InBroken(url) = {}
                         /\ \E d \in InRedirects(url) : lcRedirects[d].to = TargetOf(url)
                    [] OTHER ->
                         /\ InBroken(url) = {}
                         /\ InRedirects(url) = {}

\* What the code does: the status alone decides, a redirect is listed with
\* or without a Location header, and an exception is listed with the status
\* "Error" and its text in the field error.
ClassifiedByStatus ==
    lcPc = "done" =>
        \A i \in DOMAIN lcProbes :
            LET url == lcProbes[i].url
                r == response(url, lcShift)
            IN /\ \A k \in DOMAIN lcProbes[i].requests : lcProbes[i].requests[k].url = url
               /\ CASE r.throws ->
                         /\ InRedirects(url) = {}
                         /\ \E b \in InBroken(url) :
                                lcBroken[b].status = jsString("Error") /\ lcBroken[b].error = r.message
                    [] ~r.throws /\ r.status >= 400 ->
                         /\ InRedirects(url) = {}
                         /\ \E b \in InBroken(url) : lcBroken[b].status = jsNumber(r.status)
                    [] ~r.throws /\ r.status \in 300..399 ->
                         /\ InBroken(url) = {}
                         /\ \E d \in InRedirects(url) :
                                lcRedirects[d].to = IF r.location THEN TargetOf(url) ELSE undefined
                    [] OTHER ->
                         /\ InBroken(url) = {}
                         /\ InRedirects(url) = {}

\* What the orchestrator stores of it: an exception's status is NaN and its
\* text is gone, and a redirect has lost the link it belongs to.
StoredLosesErrorText ==
    LET stored == brokenLinksResult(lcBroken, lcRedirects)
    IN /\ \A i \in DOMAIN lcBroken :
            lcBroken[i].status = jsString("Error") => stored.broken[i].status = NaN
       /\ \A i \in DOMAIN lcRedirects : stored.redirects[i].url = undefined

----------------------------------------------------------------------------
(* Site architecture                                                        *)
(* src/src/utils/technical-seo-analyzer/visualizer.ts                       *)
(* A URL is a number; the seed is 0, and the URL MaxArPages is one that     *)
(* pages link to and that was never crawled.                                *)

\* Bound: the number of pages of a page graph.
MaxArPages == 3

ArUrls == 0..(MaxArPages - 1)
ArTargets == 0..MaxArPages

\* The links of a page: none, one or two of the targets in document order,
\* or no links field at all (a page stored by fetcherror / fetchtimeout).
NoLinks == [hasLinks |-> FALSE, links |-> << >>]
LinkChoices ==
    {NoLinks}
    \cup {[hasLinks |-> TRUE, links |-> << >>]}
    \cup {[hasLinks |-> TRUE, links |-> <<t>>] : t \in ArTargets}
    \cup UNION {{[hasLinks |-> TRUE, links |-> <<t, u>>] : u \in (t + 1)..MaxArPages} : t \in ArTargets}

\* The key orders of a page map: the seed is stored before every other page
\* (nothing else is queued until the seed was fetched), the others in the
\* order their fetches ended.
RECURSIVE Descending(_)
Descending(S) ==
    IF S = {} THEN << >>
    ELSE LET m == CHOOSE x \in S : \A y \in S : x >= y
         IN  <<m>> \o Descending(S \ {m})
KeyOrders ==
    {<< >>}
    \cup {<<Seed>> \o SetToSeq(S) : S \in SUBSET (ArUrls \ {Seed})}
    \cup {<<Seed>> \o Descending(S) : S \in SUBSET (ArUrls \ {Seed})}

\* Lines 30-41: the loop over the links of the page taken from the queue.
RECURSIVE visitLinks(_, _, _, _)
visitLinks(st, links, depth, pages) ==
    IF links = << >> THEN st
    ELSE LET link == Head(links)
             newDepth == depth + 1
             set == link \notin DOMAIN st.depthMap \/ st.depthMap[link] > newDepth
             st1 == IF set
                    THEN [st EXCEPT !.depthMap = [u \in DOMAIN st.depthMap \cup {link} |->
                                                     IF u = link THEN newDepth ELSE st.depthMap[u]],
                                    !.order = IF link \in DOMAIN st.depthMap THEN @ ELSE Append(@, link)]
                    ELSE st
             st2 == IF link \notin st.visited
                    THEN [st1 EXCEPT !.visited = @ \cup {link}, !.queue = Append(@, link)]
                    ELSE st1
         IN IF link \notin DOMAIN pages
            THEN visitLinks(st, Tail(links), depth, pages)
            ELSE visitLinks(st2, Tail(links), depth, pages)

\* Lines 25-42: the loop over the queue.
RECURSIVE traverse(_, _)
traverse(st, pages) ==
    IF st.queue = << >> THEN st
    ELSE LET url == Head(st.queue)
             rest == [st EXCEPT !.queue = Tail(@)]
         IN IF url \notin DOMAIN pages \/ ~pages[url].hasLinks
            THEN traverse(rest, pages)
            ELSE traverse(visitLinks(rest, pages[url].links, st.depthMap[url], pages), pages)

\* (variant) the traversal starts at the last key of the map
homepageLast(keys) == keys[Len(keys)]

\* Line 21: const homepage = keys[0].
homepage(keys) == keys[1]

\* Lines 16-42: depthMap and the order its keys were set in.
depthMapOf(keys, pages) ==
    IF keys = << >> THEN [depthMap |-> << >>, order |-> << >>, queue |-> << >>, visited |-> {}]
    ELSE traverse([queue |-> <<homepage(keys)>>,
                   depthMap |-> [u \in {homepage(keys)} |-> 0],
                   order |-> <<homepage(keys)>>,
                   visited |-> {homepage(keys)}], pages)

RECURSIVE selectDepth(_, _, _)
selectDepth(order, depthMap, d) ==
    IF order = << >> THEN << >>
    ELSE (IF depthMap[Head(order)] = d THEN <<Head(order)>> ELSE << >>)
         \o selectDepth(Tail(order), depthMap, d)

\* Lines 43-48: the groups, each in the order of depthMap.
depthGroupsOf(st) ==
    [d \in {st.depthMap[u] : u \in DOMAIN st.depthMap} |-> selectDepth(st.order, st.depthMap, d)]

ArIdleState ==
    /\ arDepthMap = << >>
    /\ arDepthGroups = << >>

StartAR ==
    /\ arKeys \in KeyOrders
    /\ arPages \in [{arKeys[i] : i \in DOMAIN arKeys} -> LinkChoices]
    /\ arPc = "called"
    /\ ArIdleState

IdleAR ==
    /\ arKeys = << >>
    /\ arPages = << >>
    /\ arPc = "idle"
    /\ ArIdleState

\* visualize(crawledPages) runs to its end.
ArVisualize ==
    /\ arPc = "called"
    /\ LET st == depthMapOf(arKeys, arPages)
       IN /\ arDepthMap' = st.depthMap
          /\ arDepthGroups' = depthGroupsOf(st)
    /\ arPc' = "done"
    /\ UNCHANGED <<arKeys, arPages>>
    /\ UNCHANGED arOthers

StepAR == ArVisualize

(* Claims about the depth map *)

\* The crawled pages within n links of the seed.
RECURSIVE ReachedIn(_)
ReachedIn(n) ==
    IF n = 0 THEN {Seed} \cap DOMAIN arPages
    ELSE LET R == ReachedIn(n - 1)
         IN R \cup {u \in DOMAIN arPages :
                        \E p \in R : arPages[p].hasLinks
                                     /\ \E i \in DOMAIN arPages[p].links : arPages[p].links[i] = u}
Reachable == ReachedIn(MaxArPages)
Distance(u) == CHOOSE n \in 0..MaxArPages : u \in ReachedIn(n) /\ \A m \in 0..(n - 1) : u \notin ReachedIn(m)

GroupsOf(u) ==
    {<<d, i>> \in UNION {{d} \X DOMAIN arDepthGroups[d] : d \in DOMAIN arDepthGroups} :
        arDepthGroups[d][i] = u}

OnlyReachableHasDepth ==
    arPc = "done" => DOMAIN arDepthMap = Reachable

----------------------------------------------------------------------------
(* Redirect check: the variants of the request URL                          *)
(* handleRedirectCheck (src/src/controllers/seoAnalyzer.ts, lines 473-616)  *)
(* A URL is its scheme, whether its host starts with www., whether its path *)
(* ends with a slash, and whether it is written as the request gave it      *)
(* (upper case, say) and so differs from every URL the handler composes.    *)

Protocols == {"http:", "https:"}
VariantUrls == [proto : Protocols, www : BOOLEAN, slash : BOOLEAN, raw : BOOLEAN]

\* How check(candidate) ends: the site answers ("ok"), redirects to its
\* canonical URL ("redirect"), cannot be reached ("error": check catches it
\* and returns the chain with an error hop) or never answers ("hangs").
CheckKinds == {"ok", "redirect", "error", "hangs"}
\* The sites: the bare host ends a check in any way for either scheme, and
\* the www host does the same or redirects.
VariantSites ==
    {[x \in Protocols \X BOOLEAN |-> IF x[2] /\ wwwRedirects THEN "redirect" ELSE bare[x[1]]] :
        bare \in [Protocols -> CheckKinds], wwwRedirects \in BOOLEAN}

Canonical == [proto |-> "https:", www |-> TRUE, slash |-> TRUE, raw |-> FALSE]

\* RedirectChecker.check (redirectCheckerService.ts, lines 32-80): the chain
\* it returns; with a negative maxRedirects the loop is not entered.
chainOf(candidate, kind, noLoop) ==
    IF noLoop THEN << >>
    ELSE CASE kind = "ok" -> <<[url |-> candidate, status |-> 200, error |-> ""]>>
           [] kind = "redirect" -> <<[url |-> candidate, status |-> 301, error |-> ""],
                                     [url |-> Canonical, status |-> 200, error |-> ""]>>
           [] OTHER -> <<[url |-> candidate, status |-> 0, error |-> "connect ECONNREFUSED"]>>

\* Set.add: the insertion order is kept and a value that is there is skipped.
RECURSIVE addAll(_, _)
addAll(seq, items) ==
    IF items = << >> THEN seq
    ELSE addAll(IF \E i \in DOMAIN seq : seq[i] = Head(items) THEN seq ELSE Append(seq, Head(items)),
                Tail(items))

otherProtocol(proto) == IF proto = "https:" THEN "http:" ELSE "https:"

\* Lines 482-515: the variants, in the order they are probed.
variantsOf(u) ==
    LET protocols == <<u.proto, otherProtocol(u.proto)>>
        hosts == addAll(<< >>, <<u.www, TRUE, FALSE>>)
        composed(p, h) ==
            <<[proto |-> protocols[p], www |-> hosts[h], slash |-> u.slash, raw |-> FALSE],
              [proto |-> protocols[p], www |-> hosts[h], slash |-> u.slash, raw |-> FALSE],
              [proto |-> protocols[p], www |-> hosts[h], slash |-> ~u.slash, raw |-> FALSE]>>
    IN addAll(<<u>>, composed(1, 1) \o composed(1, 2) \o composed(2, 1) \o composed(2, 2))

\* (variant) every successful variant replaces the chain
pickLatest(redirectChain, resultChain) == resultChain

\* Lines 553-556: the first chain that is not empty is kept.
pickChain(redirectChain, resultChain) ==
    IF redirectChain = << >> THEN resultChain ELSE redirectChain

\* Lines 543-550, 560-565: the report of a variant.
successReport(candidate, chain) ==
    [candidate |-> candidate, success |-> TRUE, error |-> "",
     chainLength |-> IF Len(chain) > 0 THEN Len(chain) - 1 ELSE 0,
     finalUrl |-> IF Len(chain) > 0 THEN chain[Len(chain)].url ELSE candidate]
failureReport(candidate, message) ==
    [candidate |-> candidate, success |-> FALSE, error |-> message,
     chainLength |-> 0, finalUrl |-> candidate]

\* Lines 618-690: the status of the error response.
errorStatus(message) ==
    IF message = "Request timeout" THEN 408 ELSE 502

NoVariantResponse == [status |-> 0, chain |-> << >>, reports |-> << >>]

VrIdleState ==
    /\ vrIndex = 1
    /\ vrTimedOut = FALSE
    /\ vrReports = << >>
    /\ vrChain = << >>
    /\ vrLastError = ""
    /\ vrResponse = NoVariantResponse

\* The handler has validated the request and calls check for the first
\* variant, the URL as the request gave it.
StartVR ==
    /\ vrUrl \in VariantUrls
    /\ vrSite \in VariantSites
    /\ vrNoLoop \in BOOLEAN
    /\ vrPc = "awaiting"
    /\ vrProbed = <<vrUrl>>
    /\ VrIdleState

IdleVR ==
    /\ vrUrl = Canonical
    /\ vrSite = [x \in Protocols \X BOOLEAN |-> "ok"]
    /\ vrNoLoop = FALSE
    /\ vrPc = "idle"
    /\ vrProbed = << >>
    /\ VrIdleState

vrEnv == <<vrUrl, vrSite, vrNoLoop>>

candidateAt(i) == variantsOf(vrUrl)[i]

\* The loop goes to the next variant and calls check for it, or ends.
VrNextVariant ==
    /\ vrIndex' = vrIndex + 1
    /\ IF vrIndex < Len(variantsOf(vrUrl))
       THEN vrPc' = "awaiting" /\ vrProbed' = Append(vrProbed, candidateAt(vrIndex + 1))
       ELSE vrPc' = "settled" /\ UNCHANGED vrProbed

\* Lines 539-556: check resolves before the deadline.
VrCheckResolves ==
    /\ vrPc = "awaiting"
    /\ ~vrTimedOut
    /\ LET candidate == candidateAt(vrIndex)
           kind == vrSite[<<candidate.proto, candidate.www>>]
           resultChain == chainOf(candidate, kind, vrNoLoop)
       IN /\ kind # "hangs"
          /\ vrReports' = Append(vrReports, successReport(candidate, resultChain))
          /\ vrChain' = pickChain(vrChain, resultChain)
    /\ VrNextVariant
    /\ UNCHANGED <<vrEnv, vrTimedOut, vrLastError, vrResponse>>
    /\ UNCHANGED vrOthers

\* Lines 473-478: the timer of timeoutPromise fires.
VrDeadline ==
    /\ vrPc = "awaiting"
    /\ ~vrTimedOut
    /\ vrTimedOut' = TRUE
    /\ UNCHANGED <<vrEnv, vrPc, vrIndex, vrReports, vrChain, vrLastError, vrResponse, vrProbed>>
    /\ UNCHANGED vrOthers

\* Lines 557-567: the race rejects with the rejection of timeoutPromise.
VrRaceRejects ==
    /\ vrPc = "awaiting"
    /\ vrTimedOut
    /\ vrLastError' = "Request timeout"
    /\ vrReports' = Append(vrReports, failureReport(candidateAt(vrIndex), "Request timeout"))
    /\ VrNextVariant
    /\ UNCHANGED <<vrEnv, vrTimedOut, vrChain, vrResponse>>
    /\ UNCHANGED vrOthers

\* Lines 570-616 and the catch after them: the response.
VrRespond ==
    /\ vrPc = "settled"
    /\ vrPc' = "responded"
    /\ vrResponse' =
          IF vrChain = << >>
          THEN [status |-> errorStatus(IF vrLastError # "" THEN vrLastError ELSE "Failed to fetch URL"),
                chain |-> << >>, reports |-> << >>]
          ELSE [status |-> 200, chain |-> vrChain, reports |-> vrReports]
    /\ UNCHANGED <<vrEnv, vrIndex, vrTimedOut, vrReports, vrChain, vrLastError, vrProbed>>
    /\ UNCHANGED vrOthers

StepVR ==
    \/ VrCheckResolves
    \/ VrDeadline
    \/ VrRaceRejects
    \/ VrRespond

(* Claims about the variants *)

ReportsOf(candidate) == {i \in DOMAIN vrReports : vrReports[i].candidate = candidate}
Successes == {i \in DOMAIN vrReports : vrReports[i].success}
FirstSuccess == CHOOSE i \in Successes : \A j \in Successes : i <= j

FailuresAreTheDeadline ==
    /\ \A i \in DOMAIN vrReports : ~vrReports[i].success =>
          /\ vrReports[i].error = "Request timeout"
          /\ \A j \in DOMAIN vrReports : j > i => ~vrReports[j].success
    /\ \A i \in DOMAIN vrReports :
          (~vrTimedOut /\ vrSite[<<vrProbed[i].proto, vrProbed[i].www>>] = "error") => vrReports[i].success

----------------------------------------------------------------------------
(* Redirect chain analysis: security flags                                  *)
(* analyzeRedirectChain (src/src/controllers/seoAnalyzer.ts, lines 198-330) *)
(* A hop is the scheme and the host of its URL.                             *)

\* Bound: the number of hops of a chain.
MaxChainLen == 3

HopHosts == {"example.com", "www.example.com", "other.org"}
HopUrls == [proto : Protocols, host : HopHosts]
Chains == UNION {[1..n -> HopUrls] : n \in 1..MaxChainLen}

\* Lines 180-182: hostname.replace(/^www\./i, '').
stripWww(hostname) == IF hostname = "www.example.com" THEN "example.com" ELSE hostname

\* Lines 261, 273: the downgrade is tested inside the test for a change of
\* the bare domain.
downgradeTested(chain, index, previousDomain) ==
    previousDomain # "" /\ stripWww(chain[index].host) # stripWww(previousDomain)

\* Lines 224-281: the security issues the loop over the hops collects, from
\* hop index on.
RECURSIVE securityIssuesFrom(_, _, _, _)
securityIssuesFrom(chain, index, previousDomain, issues) ==
    IF index > Len(chain) THEN issues
    ELSE LET currentDomain == chain[index].host
             changed == previousDomain # "" /\ stripWww(currentDomain) # stripWww(previousDomain)
             mixed == /\ downgradeTested(chain, index, previousDomain)
                      /\ chain[index - 1].proto = "https:"
                      /\ chain[index].proto = "http:"
             next == issues \cup (IF changed THEN {"domain-change"} ELSE {})
                            \cup (IF mixed THEN {"mixed-content"} ELSE {})
         IN securityIssuesFrom(chain, index + 1, currentDomain, next)

StartAN ==
    /\ anChain \in Chains
    /\ anPc = "called"
    /\ anSecurityIssues = {}

IdleAN ==
    /\ anChain = << >>
    /\ anPc = "idle"
    /\ anSecurityIssues = {}

\* analyzeRedirectChain(redirectChain) runs to its end.
AnAnalyze ==
    /\ anPc = "called"
    /\ anSecurityIssues' = securityIssuesFrom(anChain, 1, "", {})
    /\ anPc' = "done"
    /\ UNCHANGED anChain
    /\ UNCHANGED anOthers

StepAN == AnAnalyze

(* Claims about the security flags *)

Downgrades == {i \in 1..(Len(anChain) - 1) :
                  anChain[i].proto = "https:" /\ anChain[i + 1].proto = "http:"}

\* C24: the analysis of a chain reports mixed-content whenever a hop with an
\* https URL is directly followed by a hop with an http URL, whatever the
\* hosts of the two hops are.
C24_DowngradeFlagged ==
    (anPc = "done" /\ Downgrades # {}) => "mixed-content" \in anSecurityIssues

\* What the code does: a downgrade is reported when the two hops differ in
\* their bare domain, and only then.
DowngradeFlaggedAcrossDomains ==
    anPc = "done" =>
        ("mixed-content" \in anSecurityIssues
            <=> \E i \in Downgrades : stripWww(anChain[i].host) # stripWww(anChain[i + 1].host))

----------------------------------------------------------------------------
(* The crawl under the orchestrator's deadline                             *)
(* index.ts runFullAnalysis / withTimeout, crawler.ts crawl                *)

\* setTimeout(..., 12000) and setTimeout(..., 15000): the file holds the
\* class twice, with either delay.
OverallTimeouts == {12000, 15000}

\* this.withTimeout(crawler.crawl(), 15000, "crawl")
CrawlDeadlineMs == 15000

\* When the library emits "complete": never ({}), or at one of these times.
CompleteTimes == {3000, 6000, 9000, 12000, 15000, 18000}

\* Promises settle through queued reactions; a timer callback or an event
\* runs once the reactions queued so far have run.
drained == cdJobs = << >>

\* (variant) the deadline's timer is armed ahead of the crawler's
armAhead(timers, t) == <<t>> \o timers

\* withTimeout arms its timer after crawl() armed the crawler's: the
\* argument crawler.crawl() is evaluated before withTimeout is entered.
armAfter(timers, t) == Append(timers, t)

\* The timers that are due.
dueTimers == {i \in DOMAIN cdTimers : cdTimers[i].due <= cdClock}

\* The timer whose callback runs next: the earliest due, and of two that
\* are due at once the one armed first.
nextTimer ==
    CHOOSE i \in dueTimers :
        \A j \in dueTimers :
            \/ cdTimers[i].due < cdTimers[j].due
            \/ cdTimers[i].due = cdTimers[j].due /\ i <= j

\* clearTimeout and the removal of a timer that fired.
withoutTimer(timers, name) == SelectSeq(timers, LAMBDA t : t.name # name)

\* resolve(this.crawledPages): settles crawl()'s promise once.
resolveCrawl(jobs) ==
    IF cdCrawl = "pending" THEN Append(jobs, "crawl resolved") ELSE jobs

StartCD ==
    /\ cdOverall \in OverallTimeouts
    /\ cdCompleteAt \in {{}} \cup {{t} : t \in CompleteTimes}
    /\ cdPc = "crawl"
    /\ cdClock = 0
    /\ cdRunning = FALSE
    /\ cdTimers = << >>
    /\ cdJobs = << >>
    /\ cdCrawl = "pending"
    /\ cdTimeout = "pending"
    /\ cdRace = "pending"

IdleCD ==
    /\ cdOverall = CrawlDeadlineMs
    /\ cdCompleteAt = {}
    /\ cdPc = "idle"
    /\ cdClock = 0
    /\ cdRunning = FALSE
    /\ cdTimers = << >>
    /\ cdJobs = << >>
    /\ cdCrawl = "pending"
    /\ cdTimeout = "pending"
    /\ cdRace = "pending"

\* crawler.crawl(): arms the overall timer, registers the handlers, starts.
CdCrawl ==
    /\ cdPc = "crawl"
    /\ cdTimers' = Append(cdTimers, [name |-> "crawlTimeout", due |-> cdClock + cdOverall])
    /\ cdRunning' = TRUE
    /\ cdPc' = "withTimeout"
    /\ UNCHANGED <<cdOverall, cdCompleteAt, cdClock, cdJobs, cdCrawl, cdTimeout,
                   cdRace, cdOthers>>

\* withTimeout(promise, 15000, "crawl"): arms the deadline, races the two
\* promises; runFullAnalysis awaits the race.
CdWithTimeout ==
    /\ cdPc = "withTimeout"
    /\ cdTimers' = armAfter(cdTimers, [name |-> "deadline", due |-> cdClock + CrawlDeadlineMs])
    /\ cdPc' = "awaiting"
    /\ UNCHANGED <<cdOverall, cdCompleteAt, cdClock, cdRunning, cdJobs, cdCrawl,
                   cdTimeout, cdRace, cdOthers>>

\* crawler.on("complete"): clearTimeout(crawlTimeout); resolve(crawledPages).
CdComplete ==
    /\ cdPc = "awaiting"
    /\ cdRunning
    /\ cdClock \in cdCompleteAt
    /\ drained
    /\ cdTimers' = withoutTimer(cdTimers, "crawlTimeout")
    /\ cdJobs' = resolveCrawl(cdJobs)
    /\ cdRunning' = FALSE
    /\ UNCHANGED <<cdOverall, cdCompleteAt, cdPc, cdClock, cdCrawl, cdTimeout,
                   cdRace, cdOthers>>

\* The overall timer of the crawler: crawler.stop(); resolve(crawledPages).
CdCrawlTimeout ==
    /\ dueTimers # {}
    /\ drained
    /\ cdTimers[nextTimer].name = "crawlTimeout"
    /\ cdTimers' = withoutTimer(cdTimers, "crawlTimeout")
    /\ cdRunning' = FALSE
    /\ cdJobs' = resolveCrawl(cdJobs)
    /\ UNCHANGED <<cdOverall, cdCompleteAt, cdPc, cdClock, cdCrawl, cdTimeout,
                   cdRace, cdOthers>>

\* The timer of withTimeout: reject(new Error("crawl timed out after 15000ms")).
CdDeadline ==
    /\ dueTimers # {}
    /\ drained
    /\ cdTimers[nextTimer].name = "deadline"
    /\ cdTimers' = withoutTimer(cdTimers, "deadline")
    /\ cdTimeout' = "rejected"
    /\ cdJobs' = Append(cdJobs, "deadline rejected")
    /\ UNCHANGED <<cdOverall, cdCompleteAt, cdPc, cdClock, cdRunning, cdCrawl,
                   cdRace, cdOthers>>

\* The oldest queued reaction runs: the promise of crawl() fulfils, the
\* race settles with whichever of its promises settled first, and
\* runFullAnalysis goes on after its await or throws the rejection on.
CdReaction ==
    /\ cdJobs # << >>
    /\ LET job == Head(cdJobs)
           rest == Tail(cdJobs)
           settles == job \in {"crawl resolved", "deadline rejected"} /\ cdRace = "pending"
       IN  /\ cdCrawl' = IF job = "crawl resolved" THEN "resolved" ELSE cdCrawl
           /\ cdRace' = IF ~settles THEN cdRace
                        ELSE IF job = "crawl resolved" THEN "value" ELSE "timed out"
           /\ cdJobs' = IF settles THEN Append(rest, "race settled") ELSE rest
           /\ cdPc' = IF job # "race settled" THEN cdPc
                      ELSE IF cdRace = "value" THEN "continued" ELSE "threw"
    /\ UNCHANGED <<cdOverall, cdCompleteAt, cdClock, cdRunning, cdTimers,
                   cdTimeout, cdOthers>>

\* Time passes to the next timer or event, once nothing is left to run now.
CdAdvance ==
    /\ cdPc \notin {"idle", "crawl", "withTimeout"}
    /\ drained
    /\ dueTimers = {}
    /\ ~(cdRunning /\ cdClock \in cdCompleteAt)
    /\ LET times == {cdTimers[i].due : i \in DOMAIN cdTimers}
                        \cup (IF cdRunning THEN cdCompleteAt ELSE {})
           later == {t \in times : t > cdClock}
       IN  /\ later # {}
           /\ cdClock' = CHOOSE t \in later : \A u \in later : t <= u
    /\ UNCHANGED <<cdOverall, cdCompleteAt, cdPc, cdRunning, cdTimers, cdJobs,
                   cdCrawl, cdTimeout, cdRace, cdOthers>>

StepCD ==
    \/ CdCrawl
    \/ CdWithTimeout
    \/ CdComplete
    \/ CdCrawlTimeout
    \/ CdDeadline
    \/ CdReaction
    \/ CdAdvance

(* C30: the crawler's own timer resolves the crawl before the deadline of  *)
(* withTimeout can reject it: whenever the deadline has rejected, the race *)
(* is already settled with the page map, and runFullAnalysis never throws  *)
(* "crawl timed out".                                                      *)
C30_CrawlBeatsDeadline ==
    /\ cdTimeout = "rejected" => cdRace = "value"
    /\ cdRace # "timed out"
    /\ cdPc # "threw"

\* A crawl that never completed, stopped by an overall timer as long as
\* the deadline: both timers fired and runFullAnalysis went on.
C30_Witness ==
    /\ cdCompleteAt = {}
    /\ cdOverall = CrawlDeadlineMs
    /\ cdTimeout = "rejected"
    /\ cdPc = "continued"

----------------------------------------------------------------------------
(* Specifications: one per component, the others idle                      *)

InitRL == StartRL /\ IdleRD /\ IdleCR /\ IdleOR /\ IdleWR /\ IdleRQ /\ IdleSF /\ IdleLC /\ IdleAR /\ IdleVR /\ IdleAN /\ IdleCD
NextRL == StepRL
SpecRL == InitRL /\ [][NextRL]_vars

InitRD == StartRD /\ IdleRL /\ IdleCR /\ IdleOR /\ IdleWR /\ IdleRQ /\ IdleSF /\ IdleLC /\ IdleAR /\ IdleVR /\ IdleAN /\ IdleCD
NextRD == StepRD
SpecRD == InitRD /\ [][NextRD]_vars

InitCR == StartCR /\ IdleRL /\ IdleRD /\ IdleOR /\ IdleWR /\ IdleRQ /\ IdleSF /\ IdleLC /\ IdleAR /\ IdleVR /\ IdleAN /\ IdleCD
NextCR == StepCR
SpecCR == InitCR /\ [][NextCR]_vars

InitOR == StartOR /\ IdleRL /\ IdleRD /\ IdleCR /\ IdleWR /\ IdleRQ /\ IdleSF /\ IdleLC /\ IdleAR /\ IdleVR /\ IdleAN /\ IdleCD
NextOR == StepOR
SpecOR == InitOR /\ [][NextOR]_vars

InitWR == StartWR /\ IdleRL /\ IdleRD /\ IdleCR /\ IdleOR /\ IdleRQ /\ IdleSF /\ IdleLC /\ IdleAR /\ IdleVR /\ IdleAN /\ IdleCD
NextWR == StepWR
SpecWR == InitWR /\ [][NextWR]_vars

\* The request runs the orchestrator, constructed without options (full mode).
InitRQ ==
    /\ StartRQ
    /\ StartOR /\ ~fastMode /\ collaborators \in RequestCollaborators
    /\ IdleRL /\ IdleRD /\ IdleCR /\ IdleWR /\ IdleSF /\ IdleLC /\ IdleAR /\ IdleVR /\ IdleAN /\ IdleCD
NextRQ == StepRQ \/ StepOR
SpecRQ == InitRQ /\ [][NextRQ]_vars

\* The redirect check behind the handler's URL validation.
InitGF == StartRD /\ IdleRL /\ IdleCR /\ IdleOR /\ IdleWR /\ IdleRQ /\ IdleSF /\ IdleLC /\ IdleAR /\ IdleVR /\ IdleAN /\ IdleCD
NextGF == StepGF
SpecGF == InitGF /\ [][NextGF]_vars

\* A run that was called goes on: settled promises run their handlers and
\* timers that are due fire.
FairSpecOR ==
    /\ SpecOR
    /\ WF_vars(OrRunFullAnalysis)
    /\ WF_vars(OrCrawlResolved \/ OrCrawlRejected)
    /\ \A t \in FullModeTasks :
            WF_vars(OrOperationSettles(t) \/ OrDeadline(t) \/ OrBackoffElapsed(t))
    /\ WF_vars(OrAllSettled)

InitSF == StartSF /\ IdleRL /\ IdleRD /\ IdleCR /\ IdleOR /\ IdleWR /\ IdleRQ /\ IdleLC /\ IdleAR /\ IdleVR /\ IdleAN /\ IdleCD
NextSF == StepSF
SpecSF == InitSF /\ [][NextSF]_vars

InitLC == StartLC /\ IdleRL /\ IdleRD /\ IdleCR /\ IdleOR /\ IdleWR /\ IdleRQ /\ IdleSF /\ IdleAR /\ IdleVR /\ IdleAN /\ IdleCD
NextLC == StepLC
SpecLC == InitLC /\ [][NextLC]_vars

InitAR == StartAR /\ IdleRL /\ IdleRD /\ IdleCR /\ IdleOR /\ IdleWR /\ IdleRQ /\ IdleSF /\ IdleLC /\ IdleVR /\ IdleAN /\ IdleCD
NextAR == StepAR
SpecAR == InitAR /\ [][NextAR]_vars

InitVR == StartVR /\ IdleRL /\ IdleRD /\ IdleCR /\ IdleOR /\ IdleWR /\ IdleRQ /\ IdleSF /\ IdleLC /\ IdleAR /\ IdleAN /\ IdleCD
NextVR == StepVR
SpecVR == InitVR /\ [][NextVR]_vars

InitAN == StartAN /\ IdleRL /\ IdleRD /\ IdleCR /\ IdleOR /\ IdleWR /\ IdleRQ /\ IdleSF /\ IdleLC /\ IdleAR /\ IdleVR /\ IdleCD
NextAN == StepAN
SpecAN == InitAN /\ [][NextAN]_vars

\* The operation settles or the timer of withTimeout fires, and the timer of
\* the wait fires.
FairSpecWR ==
    /\ SpecWR
    /\ WF_vars(WrResolves \/ (\E msg \in OperationErrors : WrRejects(msg)) \/ WrDeadline)
    /\ WF_vars(WrBackoffElapsed)

InitCD == StartCD /\ IdleRL /\ IdleRD /\ IdleCR /\ IdleOR /\ IdleWR /\ IdleRQ /\ IdleSF /\ IdleLC /\ IdleAR /\ IdleVR /\ IdleAN
NextCD == StepCD
SpecCD == InitCD /\ [][NextCD]_vars

\* Timers that are due fire and time passes; a response may never come.
FairSpecCR ==
    /\ SpecCR
    /\ WF_vars(CrTickFetch \/ CrTickComplete \/ CrTickIdle)
    /\ WF_vars(\E r \in crOpen : CrFetchTimeout(r))
    /\ WF_vars(CrTimer)
    /\ WF_vars(CrAdvance)

====
